---- MODULE Spec2Model ----
(***************************************************************************)
(* A model of htmlcleaner (github.com/BenLubar/htmlcleaner): the Config    *)
(* builder, Preprocess, ParseDepth / forceMaxDepth, the recursive filter   *)
(* (filterNode / cleanNode / cleanURL / cleanChildren), CleanNodes with    *)
(* its <ul> and <p> wrapping, Render and Clean.                            *)
(*                                                                         *)
(* Text is a sequence of symbols.  A symbol is one punctuation character   *)
(* or one word (a tag name, an attribute name, an entity name, a URL       *)
(* scheme, a run of letters).  Nodes live in a heap (a sequence of node    *)
(* records, a pointer is an index, 0 is nil), because the code works on    *)
(* *html.Node values through their Parent / FirstChild / LastChild /       *)
(* PrevSibling / NextSibling pointers.                                     *)
(***************************************************************************)
EXTENDS Integers, Sequences, FiniteSets, TLC

\* r := v; F(r)
With(v, F(_)) == F(v)

(***************************************************************************)
(* Symbols                                                                 *)
(***************************************************************************)
LT == "<"

GT == ">"

SL == "/"

EQ == "="

DQ == "\""

SQ == "'"

SP == " "

AMP == "&"

SEMI == ";"

COLON == ":"

PCT == "%"

\* "<" "!--" opens a comment, "--" ">" closes it
BANGDASH == "!--"

DASHDASH == "--"

\* "<" "!DOCTYPE" opens a doctype
BANGDOCTYPE == "!DOCTYPE"

\* "<" "?" and "<" "!" open a bogus comment (a processing instruction, CDATA)
QMARK == "?"

BANG == "!"

OmittedText == "[omitted]"

Punct == {LT, GT, SL, EQ, DQ, SQ, SP, AMP, SEMI, COLON, PCT, BANGDASH, DASHDASH,
          BANGDOCTYPE, QMARK, BANG, "#34", "#39", "%20", OmittedText}

\* a symbol that can start a tag name: a run of letters
IsName(s) == s \notin Punct

\* strings.ToLower / the tokenizer's lower-casing, on the mixed-case words used
ToLower(s) ==
    CASE s = "JavaScript" -> "javascript"
      [] s = "HTTP" -> "http"
      [] s = "LI" -> "li"
      [] OTHER -> s

\* atom.Lookup: the names of golang.org/x/net/html/atom's table; "" is atom 0
AtomTable == {"a", "abbr", "address", "alt", "audio", "b", "big", "blockquote", "class",
              "cite", "code", "controls", "del", "details", "div", "em", "href", "i",
              "img", "ins", "kbd", "li", "ol", "onclick", "open", "p", "poster", "pre",
              "q", "s", "script", "small", "span", "src", "strike", "strong", "sub",
              "summary", "sup", "table", "title", "tt", "u", "ul", "video", "h1", "hr",
              "svg", "math", "button"}

Lookup(name) == IF name \in AtomTable THEN name ELSE ""

(***************************************************************************)
(* Sequence helpers                                                        *)
(***************************************************************************)
RECURSIVE Flatten(_)
Flatten(ss) == IF ss = <<>> THEN <<>> ELSE Head(ss) \o Flatten(Tail(ss))

HasPrefix(s, p) == Len(s) >= Len(p) /\ SubSeq(s, 1, Len(p)) = p

HasSuffix(s, p) == Len(s) >= Len(p) /\ SubSeq(s, Len(s) - Len(p) + 1, Len(s)) = p

\* the least index >= i at which sym occurs in s, 0 when there is none
RECURSIVE IndexFrom(_, _, _)
IndexFrom(s, i, sym) ==
    IF i > Len(s) THEN 0
    ELSE IF s[i] = sym THEN i
    ELSE IndexFrom(s, i + 1, sym)


(***************************************************************************)
(* html.EscapeString and html.UnescapeString                               *)
(***************************************************************************)
EscapeSym(s) ==
    CASE s = AMP -> <<AMP, "amp", SEMI>>
      [] s = SQ -> <<AMP, "#39", SEMI>>
      [] s = LT -> <<AMP, "lt", SEMI>>
      [] s = GT -> <<AMP, "gt", SEMI>>
      [] s = DQ -> <<AMP, "#34", SEMI>>
      [] OTHER -> <<s>>

EscapeString(s) == Flatten([i \in 1..Len(s) |-> EscapeSym(s[i])])

EntityNames == {"amp", "lt", "gt", "#34", "#39"}

EntityChar(name) ==
    CASE name = "amp" -> AMP
      [] name = "lt" -> LT
      [] name = "gt" -> GT
      [] name = "#34" -> DQ
      [] OTHER -> SQ

\* "&" name [";"] is replaced by its character; the input is scanned once, left
\* to right, so a decoded "&" is never decoded again
RECURSIVE UnescapeFrom(_, _)
UnescapeFrom(s, i) ==
    IF i > Len(s) THEN <<>>
    ELSE IF s[i] = AMP /\ i < Len(s) /\ s[i + 1] \in EntityNames
         THEN LET j == IF i + 2 <= Len(s) /\ s[i + 2] = SEMI THEN i + 3 ELSE i + 2
              IN  <<EntityChar(s[i + 1])>> \o UnescapeFrom(s, j)
         ELSE <<s[i]>> \o UnescapeFrom(s, i + 1)

UnescapeString(s) == UnescapeFrom(s, 1)

(***************************************************************************)
(* html.Node and the heap                                                  *)
(***************************************************************************)
TextNode == "Text"

ElementNode == "Element"

CommentNode == "Comment"

DoctypeNode == "Doctype"

NoNode == 0

\* &html.Node{Type: t, Data: d, DataAtom: a, Attr: attrs}: all pointers nil
MkNode(t, d, a, attrs) ==
    [Type |-> t, Data |-> d, DataAtom |-> a, Namespace |-> "", Attr |-> attrs,
     Parent |-> NoNode, FirstChild |-> NoNode, LastChild |-> NoNode,
     PrevSibling |-> NoNode, NextSibling |-> NoNode]

MkAttr(k, v) == [Namespace |-> "", Key |-> k, Val |-> v]

\* The memory a call works on: the node heap, the caller's Config object, the
\* package variable DefaultConfig, and whether the call has panicked.
MkMem(h) ==
    [heap |-> h, panic |-> FALSE, config |-> <<>>, DefaultConfig |-> <<>>, unsupported |-> FALSE]

MkMemCfg(h, cfg, dflt) ==
    [heap |-> h, panic |-> FALSE, config |-> cfg, DefaultConfig |-> dflt, unsupported |-> FALSE]

\* allocation: the new node's pointer is Len(heap) of the result
Alloc(M, node) == [M EXCEPT !.heap = Append(@, node)]

Ptr(M) == Len(M.heap)

\* the children of n, in FirstChild / NextSibling order (fuel bounds a walk
\* over links that an inconsistent tree could make cyclic)
RECURSIVE SiblingChain(_, _, _)
SiblingChain(h, c, fuel) ==
    IF c = NoNode \/ fuel = 0 THEN <<>>
    ELSE <<c>> \o SiblingChain(h, h[c].NextSibling, fuel - 1)

Children(h, n) == SiblingChain(h, h[n].FirstChild, Len(h))

\* (*html.Node).AppendChild: panics if c already has a parent or siblings
AppendChild(M, n, c) ==
    LET h == M.heap
    IN  IF h[c].Parent # NoNode \/ h[c].PrevSibling # NoNode \/ h[c].NextSibling # NoNode
        THEN [M EXCEPT !.panic = TRUE]
        ELSE LET last == h[n].LastChild
                 h1 == IF last # NoNode
                       THEN [h EXCEPT ![last].NextSibling = c]
                       ELSE [h EXCEPT ![n].FirstChild = c]
                 h2 == [h1 EXCEPT ![n].LastChild = c, ![c].Parent = n,
                                  ![c].PrevSibling = last]
             IN  [M EXCEPT !.heap = h2]

\* (*html.Node).RemoveChild: panics if c's parent is not n
RemoveChild(M, n, c) ==
    LET h == M.heap
    IN  IF h[c].Parent # n
        THEN [M EXCEPT !.panic = TRUE]
        ELSE LET prev == h[c].PrevSibling
                 next == h[c].NextSibling
                 h1 == IF h[n].FirstChild = c THEN [h EXCEPT ![n].FirstChild = next] ELSE h
                 h2 == IF h1[n].LastChild = c THEN [h1 EXCEPT ![n].LastChild = prev] ELSE h1
                 h3 == IF prev # NoNode THEN [h2 EXCEPT ![prev].NextSibling = next] ELSE h2
                 h4 == IF next # NoNode THEN [h3 EXCEPT ![next].PrevSibling = prev] ELSE h3
             IN  [M EXCEPT !.heap = [h4 EXCEPT ![c].Parent = NoNode,
                                               ![c].PrevSibling = NoNode,
                                               ![c].NextSibling = NoNode]]

(***************************************************************************)
(* html.Render                                                             *)
(***************************************************************************)
voidElements == {"img", "hr", "br"}

\* elements whose text children are written raw
rawTextElements == {"script", "plaintext"}

RenderAttr(a) ==
    <<SP>> \o (IF a.Namespace # "" THEN <<a.Namespace, COLON>> ELSE <<>>)
           \o <<a.Key, EQ, DQ>> \o EscapeString(a.Val) \o <<DQ>>

\* render1: [out, err]; err is html.Render's error (a void element with children)
RECURSIVE RenderNode(_, _, _)
RECURSIVE RenderChain(_, _, _, _)
RenderChain(h, c, raw, fuel) ==
    IF c = NoNode \/ fuel = 0 THEN [out |-> <<>>, err |-> FALSE]
    ELSE       With(IF raw /\ h[c].Type = TextNode
                    THEN [out |-> h[c].Data, err |-> FALSE]
                    ELSE RenderNode(h, c, fuel - 1), LAMBDA one :
                With(RenderChain(h, h[c].NextSibling, raw, fuel - 1), LAMBDA rest :
             [out |-> one.out \o rest.out, err |-> one.err \/ rest.err]))

RenderNode(h, n, fuel) ==
    LET node == h[n]
    IN  CASE node.Type = TextNode -> [out |-> EscapeString(node.Data), err |-> FALSE]
          [] node.Type = CommentNode ->
               [out |-> <<LT, BANGDASH>> \o node.Data \o <<DASHDASH, GT>>, err |-> FALSE]
          [] node.Type = DoctypeNode ->
               [out |-> <<LT, BANGDOCTYPE, SP>> \o EscapeString(node.Data) \o <<GT>>,
                err |-> FALSE]
          [] OTHER ->
               LET name == node.Data[1]
                   open == <<LT>> \o node.Data
                             \o Flatten([i \in 1..Len(node.Attr) |->
                                            RenderAttr(node.Attr[i])])
               IN  IF name \in voidElements
                   THEN [out |-> open \o <<SL, GT>>, err |-> node.FirstChild # NoNode]
                   ELSE With(RenderChain(h, node.FirstChild, name \in rawTextElements, fuel),
                             LAMBDA kids :
                             [out |-> open \o <<GT>> \o kids.out
                                        \o (IF name = "plaintext" THEN <<>>
                                            ELSE <<LT, SL>> \o node.Data \o <<GT>>),
                              err |-> kids.err])

\* expectError that expects no error at all
expectErrorNil(M, err, expected) == [M EXCEPT !.panic = @ \/ (err # "nil")]

\* expectError(err, expected)
expectError(M, err, expected) == [M EXCEPT !.panic = @ \/ (err # expected)]

\* err := html.Render(&buf, n); expectError(err, nil)
RenderOne(M, n) ==
    With(RenderNode(M.heap, n, Len(M.heap)), LAMBDA r :
         [out |-> r.out,
          M |-> expectError(M, IF r.err THEN "void element has child nodes" ELSE "nil", "nil")])

\* Render(nodes...): the concatenation, in order
RECURSIVE Render(_, _)
Render(M, ns) ==
    IF ns = <<>> THEN [out |-> <<>>, M |-> M]
    ELSE     With(RenderOne(M, Head(ns)), LAMBDA a :
             With(Render(a.M, Tail(ns)), LAMBDA b :
             [out |-> a.out \o b.out, M |-> b.M]))

(***************************************************************************)
(* html.Tokenizer, as Preprocess and html.ParseFragment drive it           *)
(***************************************************************************)
TextToken == "TextToken"

StartTagToken == "StartTagToken"

EndTagToken == "EndTagToken"

SelfClosingTagToken == "SelfClosingTagToken"

CommentToken == "CommentToken"

DoctypeToken == "DoctypeToken"

ErrorToken == "ErrorToken"

MkToken(t, name, data, attrs, raw) ==
    [Type |-> t, Name |-> name, Data |-> data, Attr |-> attrs, Raw |-> raw]

\* tags after which the tokenizer reads raw text up to the matching end tag
rawTags == {"script"}

RECURSIVE SkipSpace(_, _)
SkipSpace(s, i) == IF i <= Len(s) /\ s[i] = SP THEN SkipSpace(s, i + 1) ELSE i

\* the end of an unquoted attribute value: the first space or ">" at or after i
RECURSIVE UnquotedEnd(_, _)
UnquotedEnd(s, i) ==
    IF i > Len(s) \/ s[i] = SP \/ s[i] = GT THEN i ELSE UnquotedEnd(s, i + 1)

\* readTag's attribute loop from position i: kind is "open" (">" read),
\* "selfclose" ("/>" read) or "eof" (the input ended inside the tag)
RECURSIVE ReadAttrs(_, _, _)
ReadAttrs(s, i0, acc) ==
    LET i == SkipSpace(s, i0)
    IN  IF i > Len(s) THEN [attrs |-> acc, next |-> i, kind |-> "eof"]
        ELSE IF s[i] = GT THEN [attrs |-> acc, next |-> i + 1, kind |-> "open"]
        ELSE IF s[i] = SL
             THEN IF i < Len(s) /\ s[i + 1] = GT
                  THEN [attrs |-> acc, next |-> i + 2, kind |-> "selfclose"]
                  ELSE ReadAttrs(s, i + 1, acc)
        ELSE LET key == ToLower(s[i])
                 j == SkipSpace(s, i + 1)
             IN  IF j <= Len(s) /\ s[j] = EQ
                 THEN LET k == SkipSpace(s, j + 1)
                      IN  IF k > Len(s) THEN [attrs |-> acc, next |-> k, kind |-> "eof"]
                          ELSE IF s[k] = DQ \/ s[k] = SQ
                          THEN LET e == IndexFrom(s, k + 1, s[k])
                               IN  IF e = 0
                                   THEN [attrs |-> acc, next |-> Len(s) + 1, kind |-> "eof"]
                                   ELSE ReadAttrs(s, e + 1, Append(acc,
                                            MkAttr(key, UnescapeString(SubSeq(s, k + 1, e - 1)))))
                          ELSE LET e == UnquotedEnd(s, k)
                               IN  ReadAttrs(s, e, Append(acc,
                                        MkAttr(key, UnescapeString(SubSeq(s, k, e - 1)))))
                 ELSE ReadAttrs(s, j, Append(acc, MkAttr(key, <<>>)))

\* whether markup starts at j: "<" followed by a letter, "/" and more, "!--",
\* "!DOCTYPE", "!" or "?"; any other "<" is text
OpensMarkup(s, j) ==
    /\ s[j] = LT
    /\ j < Len(s)
    /\ \/ IsName(s[j + 1])
       \/ s[j + 1] \in {BANGDASH, BANGDOCTYPE, QMARK, BANG}
       \/ s[j + 1] = SL /\ j + 1 < Len(s)

RECURSIVE FindMarkup(_, _)
FindMarkup(s, j) ==
    IF j > Len(s) THEN j
    ELSE IF OpensMarkup(s, j) THEN j
    ELSE FindMarkup(s, j + 1)

\* the position of "<" "/" tag at or after j, Len(s) + 1 when there is none
RECURSIVE FindRawEnd(_, _, _)
FindRawEnd(s, j, tag) ==
    IF j > Len(s) THEN j
    ELSE IF s[j] = LT /\ j + 2 <= Len(s) /\ s[j + 1] = SL /\ ToLower(s[j + 2]) = tag THEN j
    ELSE FindRawEnd(s, j + 1, tag)

\* the position of "--" ">" at or after j, 0 when there is none
RECURSIVE FindCommentEnd(_, _)
FindCommentEnd(s, j) ==
    IF j >= Len(s) THEN 0
    ELSE IF s[j] = DASHDASH /\ s[j + 1] = GT THEN j
    ELSE FindCommentEnd(s, j + 1)

\* The token that starts with the markup at position j: [tok, next].
ReadMarkup(s, j) ==
    LET c == s[j + 1]
        rest == SubSeq(s, j, Len(s))
        eof == [tok |-> MkToken(ErrorToken, "", <<>>, <<>>, rest), next |-> Len(s) + 1]
    IN  CASE c = BANGDASH ->
               LET e == FindCommentEnd(s, j + 2)
               IN  IF e = 0
                   THEN [tok |-> MkToken(CommentToken, "", SubSeq(s, j + 2, Len(s)), <<>>, rest),
                         next |-> Len(s) + 1]
                   ELSE [tok |-> MkToken(CommentToken, "", SubSeq(s, j + 2, e - 1), <<>>,
                                         SubSeq(s, j, e + 1)),
                         next |-> e + 2]
          [] c \in {QMARK, BANG, BANGDOCTYPE} ->
               LET g == IndexFrom(s, j + 2, GT)
                   e == IF g = 0 THEN Len(s) + 1 ELSE g
                   from == IF c = QMARK THEN j + 1 ELSE j + 2
                   raw == SubSeq(s, j, IF g = 0 THEN Len(s) ELSE g)
               IN  IF c = BANGDOCTYPE
                   THEN [tok |-> MkToken(DoctypeToken, "",
                                         SubSeq(s, SkipSpace(s, j + 2), e - 1), <<>>, raw),
                         next |-> e + 1]
                   ELSE [tok |-> MkToken(CommentToken, "", SubSeq(s, from, e - 1), <<>>, raw),
                         next |-> e + 1]
          [] c = SL ->
               IF s[j + 2] = GT
               THEN \* "</>": an empty comment
                    [tok |-> MkToken(CommentToken, "", <<>>, <<>>, SubSeq(s, j, j + 2)),
                     next |-> j + 3]
               ELSE IF ~IsName(s[j + 2])
               THEN \* "</" and no letter: a bogus comment up to ">"
                    LET g == IndexFrom(s, j + 2, GT)
                        e == IF g = 0 THEN Len(s) + 1 ELSE g
                    IN  [tok |-> MkToken(CommentToken, "", SubSeq(s, j + 2, e - 1), <<>>,
                                         SubSeq(s, j, IF g = 0 THEN Len(s) ELSE g)),
                         next |-> e + 1]
               ELSE     With(ReadAttrs(s, j + 3, <<>>), LAMBDA r :
                        IF r.kind = "eof" THEN eof
                        ELSE [tok |-> MkToken(EndTagToken, ToLower(s[j + 2]), <<>>, r.attrs,
                                              SubSeq(s, j, r.next - 1)),
                              next |-> r.next])
          [] OTHER ->
                   With(ReadAttrs(s, j + 2, <<>>), LAMBDA r :
                   IF r.kind = "eof" THEN eof
                   ELSE [tok |-> MkToken(IF r.kind = "selfclose" THEN SelfClosingTagToken
                                         ELSE StartTagToken,
                                         ToLower(s[j + 1]), <<>>, r.attrs,
                                         SubSeq(s, j, r.next - 1)),
                         next |-> r.next])

\* (*Tokenizer).Next from position i: [tok, next, rawTag].  rawTag is the raw
\* tag the previous start tag set ("" for none).
Next1(s, i, rawTag) ==
    IF rawTag # "" /\ FindRawEnd(s, i, rawTag) > i
    THEN LET e == FindRawEnd(s, i, rawTag)
         IN  [tok |-> MkToken(TextToken, "raw", SubSeq(s, i, e - 1), <<>>, SubSeq(s, i, e - 1)),
              next |-> e, rawTag |-> ""]
    ELSE IF i > Len(s)
    THEN [tok |-> MkToken(ErrorToken, "", <<>>, <<>>, <<>>), next |-> i, rawTag |-> ""]
    ELSE LET j == FindMarkup(s, i)
         IN  IF j > i
             THEN [tok |-> MkToken(TextToken, "", UnescapeString(SubSeq(s, i, j - 1)), <<>>,
                                   SubSeq(s, i, j - 1)),
                   next |-> j, rawTag |-> ""]
             ELSE     With(ReadMarkup(s, j), LAMBDA r :
                      [tok |-> r.tok, next |-> r.next,
                       rawTag |-> IF r.tok.Type = StartTagToken /\ r.tok.Name \in rawTags
                                  THEN r.tok.Name ELSE ""])

\* every token of s, in order; the last one is the ErrorToken of io.EOF
RECURSIVE TokensFrom(_, _, _)
TokensFrom(s, i, rawTag) ==
        With(Next1(s, i, rawTag), LAMBDA r :
        IF r.tok.Type = ErrorToken THEN <<r.tok>>
        ELSE <<r.tok>> \o TokensFrom(s, r.next, r.rawTag))

Tokens(s) == TokensFrom(s, 1, "")

(***************************************************************************)
(* html.ParseFragment in the context of a <div>: the tree construction of  *)
(* the "in body" and "text" insertion modes.  P is the parser's state: the *)
(* memory M, the stack of open elements oe, the list of active formatting  *)
(* elements afe, whether the "text" mode (raw text of a script) is on, and *)
(* unsupported, set when the input needs a part of the algorithm that is   *)
(* not modelled (tables, the adoption agency's furthest-block case).       *)
(***************************************************************************)
isSpecialElement == {"address", "blockquote", "button", "details", "div", "h1", "hr", "html",
                     "img", "li", "ol", "p", "pre", "script", "summary", "table", "ul"}

\* start tags that close an open <p> and are then inserted
closePTags == {"address", "blockquote", "details", "div", "ol", "p", "summary", "ul", "pre", "h1"}

formattingTags == {"b", "big", "code", "em", "i", "s", "small", "strike", "strong", "tt", "u"}

defaultScopeStopTags == {"html", "table"}

RemoveId(seq, id) == SelectSeq(seq, LAMBDA x : x # id)

IndexOf(seq, id) == IF \E i \in 1..Len(seq) : seq[i] = id
                    THEN CHOOSE i \in 1..Len(seq) : seq[i] = id
                    ELSE 0

PTop(P) == P.oe[Len(P.oe)]

PAddChild(P, node) ==
    LET M1 == Alloc(P.M, node)
        M2 == AppendChild(M1, PTop(P), Ptr(M1))
    IN  [P EXCEPT !.M = M2,
                  !.oe = IF node.Type = ElementNode THEN Append(@, Ptr(M1)) ELSE @]

PAddText(P, d) ==
    LET last == P.M.heap[PTop(P)].LastChild
    IN  IF d = <<>> THEN P
        ELSE IF last # NoNode /\ P.M.heap[last].Type = TextNode
        THEN [P EXCEPT !.M.heap[last].Data = @ \o d]
        ELSE PAddChild(P, MkNode(TextNode, d, "", <<>>))

PAddElement(P, tok) ==
    PAddChild(P, MkNode(ElementNode, <<tok.Name>>, Lookup(tok.Name), tok.Attr))

\* indexOfElementInScope: the index in oe of the topmost element with a tag in
\* tags, 0 when a scope stop tag is met first.  i runs from the top down.
RECURSIVE IndexInScope(_, _, _, _)
IndexInScope(P, i, tags, stops) ==
    IF i = 0 THEN 0
    ELSE LET name == P.M.heap[P.oe[i]].Data[1]
         IN  IF name \in tags THEN i
             ELSE IF name \in stops THEN 0
             ELSE IndexInScope(P, i - 1, tags, stops)

defaultScope == defaultScopeStopTags

listItemScope == defaultScopeStopTags \cup {"ol", "ul"}

buttonScope == defaultScopeStopTags \cup {"button"}

PopUntil(P, scope, tags) ==
    LET i == IndexInScope(P, Len(P.oe), tags, scope)
    IN  IF i = 0 THEN P ELSE [P EXCEPT !.oe = SubSeq(@, 1, i - 1)]

\* reconstructActiveFormattingElements: the entries of afe from index i on are
\* cloned, inserted and replaced by their clones
RECURSIVE ReopenFrom(_, _)
ReopenFrom(P, i) ==
    IF i > Len(P.afe) THEN P
    ELSE LET old == P.M.heap[P.afe[i]] IN
              With(PAddChild(P, MkNode(old.Type, old.Data, old.DataAtom, old.Attr)), LAMBDA P1 :
             ReopenFrom([P1 EXCEPT !.afe[i] = PTop(P1)], i + 1))

\* the least index such that it and all later entries of afe are not open
RECURSIVE FirstClosed(_, _)
FirstClosed(P, i) ==
    IF i = 0 THEN 1
    ELSE IF IndexOf(P.oe, P.afe[i]) # 0 THEN i + 1
    ELSE FirstClosed(P, i - 1)

Reconstruct(P) ==
    IF P.afe = <<>> \/ IndexOf(P.oe, P.afe[Len(P.afe)]) # 0 THEN P
    ELSE ReopenFrom(P, FirstClosed(P, Len(P.afe)))

\* the entries of afe identical to the element just inserted, latest first
SameFamily(P, n) ==
    LET h == P.M.heap
    IN  SelectSeq([i \in 1..Len(P.afe) |-> P.afe[Len(P.afe) + 1 - i]],
                  LAMBDA x : h[x].DataAtom = h[n].DataAtom /\ h[x].Attr = h[n].Attr)

\* addFormattingElement, with the Noah's Ark clause (three per family)
PAddFormatting(P, tok) ==
         With(PAddElement(P, tok), LAMBDA P1 :
    LET fam == SameFamily(P1, PTop(P1)) IN
    LET afe1 == IF Len(fam) >= 3
                THEN SelectSeq(P.afe, LAMBDA x : \A k \in 3..Len(fam) : fam[k] # x)
                ELSE P.afe IN
        [P1 EXCEPT !.afe = Append(afe1, PTop(P1))])

\* inBodyEndTagOther
\* adjustForeignAttributes: xlink:href is the attribute href of the
\* namespace xlink
adjustForeignAttributes(attrs) ==
    [i \in 1..Len(attrs) |->
        IF attrs[i].Key = "xlink:href"
        THEN [attrs[i] EXCEPT !.Namespace = "xlink", !.Key = "href"]
        ELSE attrs[i]]

\* addElement and p.top().Namespace = ns; a self-closing tag is popped
PAddForeign(P, tok, ns) ==
    LET P1 == PAddChild(P, [MkNode(ElementNode, <<tok.Name>>, Lookup(tok.Name),
                                   adjustForeignAttributes(tok.Attr))
                               EXCEPT !.Namespace = ns])
    IN  IF tok.Type = SelfClosingTagToken
        THEN [P1 EXCEPT !.oe = SubSeq(@, 1, Len(@) - 1)]
        ELSE P1

RECURSIVE EndTagOther(_, _, _)
EndTagOther(P, i, name) ==
    IF i = 0 THEN P
    ELSE LET n == P.M.heap[P.oe[i]]
         IN  IF n.Data[1] = name THEN [P EXCEPT !.oe = SubSeq(@, 1, i - 1)]
             ELSE IF n.Data[1] \in isSpecialElement THEN P
             ELSE EndTagOther(P, i - 1, name)

\* the latest entry of afe with the tag, 0 when there is none
LastFormatting(P, name) ==
    LET idx == {i \in 1..Len(P.afe) : P.M.heap[P.afe[i]].Data[1] = name}
    IN  IF idx = {} THEN 0 ELSE P.afe[CHOOSE i \in idx : \A j \in idx : j <= i]

\* inBodyEndTagFormatting (the adoption agency algorithm)
EndTagFormatting(P, name) ==
    LET fe == LastFormatting(P, name)
        feIndex == IndexOf(P.oe, fe)
    IN  IF fe = 0 THEN EndTagOther(P, Len(P.oe), name)
        ELSE IF feIndex = 0 THEN [P EXCEPT !.afe = RemoveId(@, fe)]
        ELSE IF IndexInScope(P, Len(P.oe), {name}, defaultScope) = 0 THEN P
        ELSE IF \E k \in feIndex..Len(P.oe) : P.M.heap[P.oe[k]].Data[1] \in isSpecialElement
        THEN [P EXCEPT !.unsupported = TRUE]
        ELSE [P EXCEPT !.oe = SubSeq(@, 1, feIndex - 1), !.afe = RemoveId(@, fe)]

\* the <li> start tag's walk down the stack
RECURSIVE CloseLi(_, _)
CloseLi(P, i) ==
    IF i = 0 THEN P
    ELSE LET name == P.M.heap[P.oe[i]].Data[1]
         IN  IF name = "li" THEN [P EXCEPT !.oe = SubSeq(@, 1, i - 1)]
             ELSE IF name \in {"address", "div", "p"} \/ name \notin isSpecialElement
             THEN CloseLi(P, i - 1)
             ELSE P

StartTag(P, tok) ==
    LET name == tok.Name
    IN  CASE name \in {"html", "body", "head"} -> P
          [] name \in closePTags -> PAddElement(PopUntil(P, buttonScope, {"p"}), tok)
          [] name = "li" ->
               PAddElement(PopUntil(CloseLi(P, Len(P.oe)), buttonScope, {"p"}), tok)
          [] name = "a" ->
               LET n == LastFormatting(P, "a")
                   P1 == IF n = 0 THEN P
                         ELSE LET Q == EndTagFormatting(P, "a")
                              IN  [Q EXCEPT !.oe = RemoveId(@, n), !.afe = RemoveId(@, n)]
               IN  PAddFormatting(Reconstruct(P1), tok)
          [] name \in formattingTags -> PAddFormatting(Reconstruct(P), tok)
          [] name \in {"img", "br"} ->
               LET P1 == PAddElement(Reconstruct(P), tok)
               IN  [P1 EXCEPT !.oe = SubSeq(@, 1, Len(@) - 1)]
          [] name = "hr" ->
               LET P1 == PAddElement(PopUntil(P, buttonScope, {"p"}), tok)
               IN  [P1 EXCEPT !.oe = SubSeq(@, 1, Len(@) - 1)]
          [] name = "button" ->
               PAddElement(Reconstruct(PopUntil(P, defaultScope, {"button"})), tok)
          [] name = "script" -> [PAddElement(P, tok) EXCEPT !.text = TRUE]
          [] name = "table" -> [P EXCEPT !.unsupported = TRUE]
          [] name \in {"svg", "math"} -> PAddForeign(Reconstruct(P), tok, name)
          [] OTHER -> PAddElement(Reconstruct(P), tok)

EndTag(P, tok) ==
    LET name == tok.Name
    IN  CASE name = "p" ->
               LET P1 == IF IndexInScope(P, Len(P.oe), {"p"}, buttonScope) = 0
                         THEN PAddElement(P, MkToken(StartTagToken, "p", <<>>, <<>>, <<>>))
                         ELSE P
               IN  PopUntil(P1, buttonScope, {"p"})
          [] name = "li" -> PopUntil(P, listItemScope, {"li"})
          [] name \in closePTags \cup {"button"} -> PopUntil(P, defaultScope, {name})
          [] name \in formattingTags \cup {"a"} -> EndTagFormatting(P, name)
          [] name = "br" -> [P EXCEPT !.unsupported = TRUE]
          [] OTHER -> EndTagOther(P, Len(P.oe), name)

\* start tags that end foreign content, and the integration points of svg
\* and math: the rules for them are not modelled
leavesForeign ==
    {"b", "big", "blockquote", "br", "code", "div", "em", "h1", "hr", "i", "img", "li",
     "ol", "p", "pre", "s", "small", "span", "strong", "strike", "sub", "sup", "table",
     "tt", "u", "ul", "foreignObject", "desc", "title", "mi", "mo", "mn", "ms", "mtext",
     "annotation-xml"}

\* parseForeignContent, an end tag: the open elements from the i-th down
RECURSIVE EndTagForeign(_, _, _)
EndTagForeign(P, i, tok) ==
    IF i = 0 THEN P
    ELSE LET n == P.M.heap[P.oe[i]]
         IN  IF n.Namespace = "" THEN EndTag(P, tok)
             ELSE IF n.Data[1] = tok.Name THEN [P EXCEPT !.oe = SubSeq(@, 1, i - 1)]
             ELSE EndTagForeign(P, i - 1, tok)

\* parseForeignContent: the current node is in the namespace of svg or math
ParseForeign(P, tok) ==
    CASE tok.Type = TextToken -> PAddText(P, tok.Data)
      [] tok.Type = CommentToken -> PAddChild(P, MkNode(CommentNode, tok.Data, "", <<>>))
      [] tok.Type \in {StartTagToken, SelfClosingTagToken} ->
            IF tok.Name \in leavesForeign THEN [P EXCEPT !.unsupported = TRUE]
            ELSE PAddForeign(P, tok, P.M.heap[PTop(P)].Namespace)
      [] tok.Type = EndTagToken -> EndTagForeign(P, Len(P.oe), tok)
      [] OTHER -> P

\* one token through the current insertion mode
ParseToken(P, tok) ==
    IF P.text
    THEN CASE tok.Type = TextToken -> PAddText(P, tok.Data)
           [] OTHER -> [P EXCEPT !.oe = SubSeq(@, 1, Len(@) - 1), !.text = FALSE]
    ELSE IF P.M.heap[PTop(P)].Namespace # "" /\ tok.Type # ErrorToken
    THEN ParseForeign(P, tok)
    ELSE CASE tok.Type = TextToken -> IF tok.Data = <<>> THEN P
                                       ELSE PAddText(Reconstruct(P), tok.Data)
           [] tok.Type \in {StartTagToken, SelfClosingTagToken} -> StartTag(P, tok)
           [] tok.Type = EndTagToken -> EndTag(P, tok)
           [] tok.Type = CommentToken -> PAddChild(P, MkNode(CommentNode, tok.Data, "", <<>>))
           [] OTHER -> P

RECURSIVE ParseTokens(_, _, _)
ParseTokens(P, toks, i) ==
    IF i > Len(toks) THEN P ELSE ParseTokens(ParseToken(P, toks[i]), toks, i + 1)

\* the result nodes are detached from the root, one RemoveChild each
RECURSIVE DetachAll(_, _, _)
DetachAll(M, root, kids) ==
    IF kids = <<>> THEN M ELSE DetachAll(RemoveChild(M, root, Head(kids)), root, Tail(kids))

\* html.ParseFragment(strings.NewReader(fragment), <div>): [M, nodes, unsupported]
ParseFragment(M, fragment) ==
    LET M0 == Alloc(M, MkNode(ElementNode, <<"html">>, "html", <<>>)) IN
    LET root == Ptr(M0) IN
    LET P0 == [M |-> M0, oe |-> <<root>>, afe |-> <<>>, text |-> FALSE, unsupported |-> FALSE] IN
        With(ParseTokens(P0, Tokens(fragment), 1), LAMBDA P :
    LET kids == Children(P.M.heap, root) IN
        [M |-> DetachAll(P.M, root, kids), nodes |-> kids, unsupported |-> P.unsupported])

(***************************************************************************)
(* Config and its builder methods                                          *)
(***************************************************************************)
\* a map with key k set to v
Put(f, k, v) == [x \in (DOMAIN f) \cup {k} |-> IF x = k THEN v ELSE f[x]]

EmptyMap == [x \in {} |-> 0]

\* a nil *regexp.Regexp
NoPattern == "nil"

\* &Config{}
ZeroConfig ==
    [elem |-> EmptyMap, attr |-> {}, elemCustom |-> EmptyMap, attrCustom |-> {},
     wrap |-> {}, wrapCustom |-> {}, ValidateURL |-> "nil",
     EscapeComments |-> FALSE, WrapText |-> FALSE, AllowJavascriptURL |-> FALSE]

\* ElemAtom that gives every element it is called with an empty attribute map
RECURSIVE ElemAtomAnew(_, _)
ElemAtomAnew(c, elems) ==
    IF elems = <<>> THEN c
    ELSE ElemAtomAnew([c EXCEPT !.elem = Put(@, Head(elems), EmptyMap)], Tail(elems))

RECURSIVE ElemAtom(_, _)
ElemAtom(c, elems) ==
    IF elems = <<>> THEN c
    ELSE LET a == Head(elems)
             c1 == IF a \in DOMAIN c.elem THEN c ELSE [c EXCEPT !.elem = Put(@, a, EmptyMap)]
         IN  ElemAtom(c1, Tail(elems))

\* Elem that skips the names atom.Lookup does not know
RECURSIVE ElemKnownOnly(_, _)
ElemKnownOnly(c, names) ==
    IF names = <<>> THEN c
    ELSE ElemKnownOnly(IF Lookup(Head(names)) # "" THEN ElemAtom(c, <<Lookup(Head(names))>>)
                       ELSE c,
                       Tail(names))

RECURSIVE Elem(_, _)
Elem(c, names) ==
    IF names = <<>> THEN c
    ELSE LET name == Head(names)
             c1 == IF Lookup(name) # "" THEN ElemAtom(c, <<Lookup(name)>>)
                   ELSE IF name \in DOMAIN c.elemCustom THEN c
                   ELSE [c EXCEPT !.elemCustom = Put(@, name, EmptyMap)]
         IN  Elem(c1, Tail(names))

GlobalAttrAtom(c, a) == [c EXCEPT !.attr = @ \cup {a}]

RECURSIVE GlobalAttr(_, _)
GlobalAttr(c, names) ==
    IF names = <<>> THEN c
    ELSE LET name == Head(names)
             c1 == IF Lookup(name) # "" THEN GlobalAttrAtom(c, Lookup(name))
                   ELSE [c EXCEPT !.attrCustom = @ \cup {name}]
         IN  GlobalAttr(c1, Tail(names))

\* ElemAttrAtomMatch that allows the attribute on every element
ElemAttrAtomMatchGlobal(c, elem, attr, match) ==
    [c EXCEPT !.elem = Put(@, elem, IF elem \in DOMAIN c.elem THEN c.elem[elem] ELSE EmptyMap),
              !.attr = @ \cup {attr}]

\* ElemAttrAtomMatch that leaves an entry the element's map already has
ElemAttrAtomMatchFirst(c, elem, attr, match) ==
    LET attrs == IF elem \in DOMAIN c.elem THEN c.elem[elem] ELSE EmptyMap
    IN  [c EXCEPT !.elem = Put(@, elem, IF attr \in DOMAIN attrs THEN attrs
                                        ELSE Put(attrs, attr, match))]

ElemAttrAtomMatch(c, elem, attr, match) ==
    LET attrs == IF elem \in DOMAIN c.elem THEN c.elem[elem] ELSE EmptyMap
    IN  [c EXCEPT !.elem = Put(@, elem, Put(attrs, attr, match))]

ElemAttrMatch(c, elem, attr, match) ==
    IF Lookup(elem) # "" /\ Lookup(attr) # ""
    THEN ElemAttrAtomMatch(c, Lookup(elem), Lookup(attr), match)
    ELSE LET attrs == IF elem \in DOMAIN c.elemCustom THEN c.elemCustom[elem] ELSE EmptyMap
         IN  [c EXCEPT !.elemCustom = Put(@, elem, Put(attrs, attr, match))]

RECURSIVE ElemAttr(_, _, _)
ElemAttr(c, elem, attrs) ==
    IF attrs = <<>> THEN c
    ELSE ElemAttr(ElemAttrMatch(c, elem, Head(attrs), NoPattern), elem, Tail(attrs))

RECURSIVE ElemAttrAtom(_, _, _)
ElemAttrAtom(c, elem, attrs) ==
    IF attrs = <<>> THEN c
    ELSE ElemAttrAtom(ElemAttrAtomMatch(c, elem, Head(attrs), NoPattern), elem, Tail(attrs))

RECURSIVE WrapTextInsideAtom(_, _)
WrapTextInsideAtom(c, elems) ==
    IF elems = <<>> THEN c
    ELSE WrapTextInsideAtom([c EXCEPT !.wrap = @ \cup {Head(elems)}], Tail(elems))

\* WrapTextInside that skips the names atom.Lookup does not know
RECURSIVE WrapTextInsideKnownOnly(_, _)
WrapTextInsideKnownOnly(c, names) ==
    IF names = <<>> THEN c
    ELSE WrapTextInsideKnownOnly(IF Lookup(Head(names)) # ""
                                 THEN WrapTextInsideAtom(c, <<Lookup(Head(names))>>)
                                 ELSE c,
                                 Tail(names))

RECURSIVE WrapTextInside(_, _)
WrapTextInside(c, names) ==
    IF names = <<>> THEN c
    ELSE LET name == Head(names)
             c1 == IF Lookup(name) # "" THEN WrapTextInsideAtom(c, <<Lookup(name)>>)
                   ELSE [c EXCEPT !.wrapCustom = @ \cup {name}]
         IN  WrapTextInside(c1, Tail(names))

\* var DefaultConfig = (&Config{ValidateURL: SafeURLScheme}).GlobalAttrAtom(...)...
DefaultConfig ==
    LET c0 == GlobalAttrAtom([ZeroConfig EXCEPT !.ValidateURL = "SafeURLScheme"], "title")
        c1 == ElemAttrAtom(c0, "a", <<"href">>)
        c2 == ElemAttrAtom(c1, "img", <<"src", "alt">>)
        c3 == ElemAttrAtom(c2, "video", <<"src", "poster", "controls">>)
        c4 == ElemAttrAtom(c3, "audio", <<"src", "controls">>)
        c5 == ElemAtom(c4, <<"b", "i", "u", "s">>)
        c6 == ElemAtom(c5, <<"em", "strong", "strike">>)
        c7 == ElemAtom(c6, <<"big", "small", "sup", "sub">>)
        c8 == ElemAtom(c7, <<"ins", "del">>)
        c9 == ElemAtom(c8, <<"abbr", "address", "cite", "q">>)
        c10 == ElemAtom(c9, <<"p", "blockquote", "pre">>)
        c11 == ElemAtom(c10, <<"code", "kbd", "tt">>)
        c12 == ElemAttrAtom(c11, "details", <<"open">>)
    IN  ElemAtom(c12, <<"summary">>)

\* A *Config argument: "nil", or a pointer to the caller's Config object or to
\* the package's DefaultConfig.
NilConfig == "nil"

UserConfig == "user"

DefaultPtr == "default"

\* if c == nil { c = DefaultConfig }
OrDefault(c) == IF c = NilConfig THEN DefaultPtr ELSE c

\* *c
Cfg(M, c) == IF c = UserConfig THEN M.config ELSE M.DefaultConfig

\* *c = cfg
SetCfg(M, c, cfg) ==
    IF c = UserConfig THEN [M EXCEPT !.config = cfg] ELSE [M EXCEPT !.DefaultConfig = cfg]

(***************************************************************************)
(* net/url: url.Parse and URL.String, on the symbols of a value            *)
(***************************************************************************)
\* getScheme: the symbols before the first ":", when they are all letters
RECURSIVE getScheme(_, _)
getScheme(v, i) ==
    IF i > Len(v) THEN [err |-> FALSE, scheme |-> <<>>, rest |-> v]
    ELSE IF v[i] = COLON
         THEN IF i = 1 THEN [err |-> TRUE, scheme |-> <<>>, rest |-> v]
              ELSE [err |-> FALSE, scheme |-> SubSeq(v, 1, i - 1),
                    rest |-> SubSeq(v, i + 1, Len(v))]
    ELSE IF IsName(v[i]) THEN getScheme(v, i + 1)
    ELSE [err |-> FALSE, scheme |-> <<>>, rest |-> v]

\* the end of the authority: the first "/" at or after i
RECURSIVE PathStart(_, _)
PathStart(v, i) == IF i > Len(v) \/ v[i] = SL THEN i ELSE PathStart(v, i + 1)

\* url.Parse: [err, Scheme, Opaque, Host, Path]
ParseURL(v) ==
    LET g == getScheme(v, 1)
        scheme == [i \in 1..Len(g.scheme) |-> ToLower(g.scheme[i])]
        rest == g.rest
        rooted == rest # <<>> /\ rest[1] = SL
        hasAuth == Len(rest) >= 2 /\ rest[1] = SL /\ rest[2] = SL
        pstart == IF hasAuth THEN PathStart(rest, 3) ELSE 1
        host == IF hasAuth THEN SubSeq(rest, 3, pstart - 1) ELSE <<>>
        path == SubSeq(rest, pstart, Len(rest))
        bad == [err |-> TRUE, Scheme |-> <<>>, Opaque |-> <<>>, Host |-> <<>>, Path |-> <<>>]
    IN  IF g.err THEN bad
        ELSE IF ~rooted /\ scheme # <<>>
        THEN [err |-> FALSE, Scheme |-> scheme, Opaque |-> rest, Host |-> <<>>, Path |-> <<>>]
        ELSE IF ~rooted /\ IndexFrom(SubSeq(rest, 1, PathStart(rest, 1) - 1), 1, COLON) # 0
        THEN bad \* first path segment in URL cannot contain colon
        ELSE IF IndexFrom(host, 1, PCT) # 0 \/ IndexFrom(host, 1, SP) # 0
                \/ IndexFrom(path, 1, PCT) # 0
        THEN bad \* invalid URL escape, invalid character in host name
        ELSE [err |-> FALSE, Scheme |-> scheme, Opaque |-> <<>>, Host |-> host, Path |-> path]

\* URL.String: the scheme in lower case, a space in the path escaped
URLString(u) ==
    (IF u.Scheme # <<>> THEN u.Scheme \o <<COLON>> ELSE <<>>)
    \o (IF u.Opaque # <<>> THEN u.Opaque
        ELSE (IF u.Host # <<>> THEN <<SL, SL>> \o u.Host ELSE <<>>)
             \o [i \in 1..Len(u.Path) |-> IF u.Path[i] = SP THEN "%20" ELSE u.Path[i]])

allowedURLSchemes == {<<"http">>, <<"https">>, <<"mailto">>, <<"data">>, <<>>}

\* func SafeURLScheme(u *url.URL) bool
SafeURLScheme(u) == u.Scheme \in allowedURLSchemes

\* c.ValidateURL(u), for the predicates a Config is given here
CallValidateURL(f, u) ==
    CASE f = "SafeURLScheme" -> SafeURLScheme(u)
      [] f = "NotHttp" -> u.Scheme # <<"http">>
      [] OTHER -> TRUE

\* Regexp.MatchString, for the patterns a Config is given here
MatchString(re, v) ==
    CASE re = "or" -> \E i \in 1..Len(v) : v[i] \in {"World", "or"}
      [] re = "^fa-spin$" -> v = <<"fa-spin">>
      [] re = "^Hello$" -> v = <<"Hello">>
      [] re = "^javascript:" -> HasPrefix(v, <<"javascript", COLON>>)
      [] OTHER -> TRUE

\* cleanURL without its check of allowedURLSchemes
cleanURLAnyScheme(cfg, a, attr) ==
    IF a # "href" /\ a # "src" /\ a # "poster" THEN [ok |-> TRUE, attr |-> attr]
    ELSE With(ParseURL(attr.Val), LAMBDA u :
              IF u.err THEN [ok |-> FALSE, attr |-> attr]
              ELSE IF cfg.ValidateURL # "nil" /\ ~CallValidateURL(cfg.ValidateURL, u)
              THEN [ok |-> FALSE, attr |-> attr]
              ELSE [ok |-> TRUE, attr |-> [attr EXCEPT !.Val = URLString(u)]])

\* cleanURL that leaves the value as it was written
cleanURLKeepValue(cfg, a, attr) ==
    IF a # "href" /\ a # "src" /\ a # "poster" THEN [ok |-> TRUE, attr |-> attr]
    ELSE     With(ParseURL(attr.Val), LAMBDA u :
             [ok |-> /\ ~u.err
                     /\ u.Scheme \in allowedURLSchemes
                     /\ (cfg.ValidateURL # "nil" => CallValidateURL(cfg.ValidateURL, u)),
              attr |-> attr])

\* cleanURL: [ok, attr]; attr.Val is rewritten when ok
cleanURL(cfg, a, attr) ==
    IF a # "href" /\ a # "src" /\ a # "poster" THEN [ok |-> TRUE, attr |-> attr]
    ELSE     With(ParseURL(attr.Val), LAMBDA u :
             IF u.err THEN [ok |-> FALSE, attr |-> attr]
             ELSE IF u.Scheme \notin allowedURLSchemes THEN [ok |-> FALSE, attr |-> attr]
             ELSE IF cfg.ValidateURL # "nil" /\ ~CallValidateURL(cfg.ValidateURL, u)
             THEN [ok |-> FALSE, attr |-> attr]
             ELSE [ok |-> TRUE, attr |-> [attr EXCEPT !.Val = URLString(u)]])

(***************************************************************************)
(* The filter: filterNode, cleanNode, cleanChildren                        *)
(***************************************************************************)
\* c.elemCustom[name] with ok: the element name was given to Elem or ElemAttr
\* and is looked up by the element's Data
customElem(cfg, name) == name \in DOMAIN cfg.elemCustom

\* customAttr[attr.Key] of customAttr := c.elemCustom[name]
customAttrs(cfg, name) == IF customElem(cfg, name) THEN cfg.elemCustom[name] ELSE EmptyMap

\* the attribute is allowed under its name: on the element by ElemAttr, or on
\* every element by GlobalAttr
customAttrListed(cfg, name, key) ==
    key \in DOMAIN customAttrs(cfg, name) \/ key \in cfg.attrCustom

\* the pattern given to ElemAttrMatch for the names, when there is one, matches
customAttrMatches(cfg, name, key, val) ==
    key \in DOMAIN customAttrs(cfg, name) /\ customAttrs(cfg, name)[key] # NoPattern
        => MatchString(customAttrs(cfg, name)[key], val)

\* text(s): a new Text node; the result is [M, n]
text(M, s) ==
    LET M1 == Alloc(M, MkNode(TextNode, s, "", <<>>))
    IN  [M |-> M1, n |-> Ptr(M1)]

\* text(Render(n))
textOfRender(M, n) ==
        With(RenderOne(M, n), LAMBDA r :
        text(r.M, r.out))

\* cleanNode's loop with its three "continue" branches left out
cleanAttrsKeepAll(cfg, n, attrs, acc) ==
    [attrs |-> acc.attrs \o attrs,
     haveSrc |-> acc.haveSrc \/ \E i \in 1..Len(attrs) : Lookup(attrs[i].Key) = "src"]

\* cleanNode's loop without the test of the value against the pattern
RECURSIVE cleanAttrsNoPattern(_, _, _, _)
cleanAttrsNoPattern(cfg, n, attrs, acc) ==
    IF attrs = <<>> THEN acc
    ELSE LET attr == Head(attrs) IN
         LET a == Lookup(attr.Key) IN
         LET allowedAttr == IF n.DataAtom \in DOMAIN cfg.elem THEN cfg.elem[n.DataAtom]
                            ELSE EmptyMap IN
             With(cleanURL(cfg, a, attr), LAMBDA u :
         LET attr1 == IF cfg.AllowJavascriptURL THEN attr ELSE u.attr IN
         LET keep == /\ attr.Namespace = ""
                     /\ \/ a \in DOMAIN allowedAttr
                        \/ a \in cfg.attr
                        \/ customAttrListed(cfg, n.Data[1], attr.Key)
                     /\ (cfg.AllowJavascriptURL \/ u.ok) IN
             cleanAttrsNoPattern(cfg, n, Tail(attrs),
                        IF keep
                        THEN [attrs |-> Append(acc.attrs, attr1),
                              haveSrc |-> acc.haveSrc \/ a = "src"]
                        ELSE acc))

\* cleanNode's loop with cleanURL called whatever c.AllowJavascriptURL is
RECURSIVE cleanAttrsURLAlways(_, _, _, _)
cleanAttrsURLAlways(cfg, n, attrs, acc) ==
    IF attrs = <<>> THEN acc
    ELSE LET attr == Head(attrs) IN
         LET a == Lookup(attr.Key) IN
         LET allowedAttr == IF n.DataAtom \in DOMAIN cfg.elem THEN cfg.elem[n.DataAtom]
                            ELSE EmptyMap IN
             With(cleanURL(cfg, a, attr), LAMBDA u :
         LET keep == /\ attr.Namespace = ""
                     /\ \/ a \in DOMAIN allowedAttr
                        \/ a \in cfg.attr
                        \/ customAttrListed(cfg, n.Data[1], attr.Key)
                     /\ u.ok
                     /\ ~(/\ a \in DOMAIN allowedAttr
                          /\ allowedAttr[a] # NoPattern
                          /\ ~MatchString(allowedAttr[a], u.attr.Val))
                     /\ customAttrMatches(cfg, n.Data[1], attr.Key, u.attr.Val) IN
             cleanAttrsURLAlways(cfg, n, Tail(attrs),
                        IF keep
                        THEN [attrs |-> Append(acc.attrs, u.attr),
                              haveSrc |-> acc.haveSrc \/ a = "src"]
                        ELSE acc))

\* cleanNode's loop over the attributes of the element n (a node record):
\* [attrs, haveSrc]
RECURSIVE cleanAttrs(_, _, _, _)
cleanAttrs(cfg, n, attrs, acc) ==
    IF attrs = <<>> THEN acc
    ELSE LET attr == Head(attrs) IN
         LET a == Lookup(attr.Key) IN
         LET allowedAttr == IF n.DataAtom \in DOMAIN cfg.elem THEN cfg.elem[n.DataAtom]
                            ELSE EmptyMap IN
             With(cleanURL(cfg, a, attr), LAMBDA u :
         LET attr1 == IF cfg.AllowJavascriptURL THEN attr ELSE u.attr IN
         LET keep == /\ attr.Namespace = ""
                     /\ \/ a \in DOMAIN allowedAttr
                        \/ a \in cfg.attr
                        \/ customAttrListed(cfg, n.Data[1], attr.Key)
                     /\ (cfg.AllowJavascriptURL \/ u.ok)
                     /\ ~(/\ a \in DOMAIN allowedAttr
                          /\ allowedAttr[a] # NoPattern
                          /\ ~MatchString(allowedAttr[a], attr1.Val))
                     /\ customAttrMatches(cfg, n.Data[1], attr.Key, attr1.Val) IN
             cleanAttrs(cfg, n, Tail(attrs),
                        IF keep
                        THEN [attrs |-> Append(acc.attrs, attr1),
                              haveSrc |-> acc.haveSrc \/ a = "src"]
                        ELSE acc))

RECURSIVE filterNode(_, _, _)
RECURSIVE cleanNode(_, _, _)
RECURSIVE cleanChildren(_, _, _)
RECURSIVE filterEach(_, _, _, _)

\* the first loop of cleanChildren: [M, children]
filterEach(M, c, kids, acc) ==
    IF kids = <<>> THEN [M |-> M, children |-> acc]
    ELSE     With(filterNode(M, c, Head(kids)), LAMBDA r :
             filterEach(r.M, c, Tail(kids), Append(acc, r.n)))

\* relink that leaves parent.LastChild as the copy got it
relinkNoLast(h, parent, children, i) ==
    LET child == children[i]
        h1 == [h EXCEPT ![child].Parent = parent]
        h2 == IF i = 1 THEN [h1 EXCEPT ![parent].FirstChild = child]
              ELSE [h1 EXCEPT ![child].PrevSibling = children[i - 1]]
    IN  IF i = Len(children) THEN h2
        ELSE [h2 EXCEPT ![child].NextSibling = children[i + 1]]

\* the second loop of cleanChildren: the links of child i
relink(h, parent, children, i) ==
    LET child == children[i]
        h1 == [h EXCEPT ![child].Parent = parent]
        h2 == IF i = 1 THEN [h1 EXCEPT ![parent].FirstChild = child]
              ELSE [h1 EXCEPT ![child].PrevSibling = children[i - 1]]
    IN  IF i = Len(children) THEN [h2 EXCEPT ![parent].LastChild = child]
        ELSE [h2 EXCEPT ![child].NextSibling = children[i + 1]]

RECURSIVE relinkAll(_, _, _, _)
relinkAll(h, parent, children, i) ==
    IF i > Len(children) THEN h
    ELSE relinkAll(relink(h, parent, children, i), parent, children, i + 1)

cleanChildren(M, c, parent) ==
        With(filterEach(M, c, Children(M.heap, parent), <<>>), LAMBDA r :
        [r.M EXCEPT !.heap = relinkAll(@, parent, r.children, 1)])

\* the element was named to WrapTextInside: c.wrap[n.DataAtom] or
\* c.wrapCustom[n.Data]
wrapRoot(cfg, node) == node.DataAtom \in cfg.wrap \/ node.Data[1] \in cfg.wrapCustom

\* an element that ends the open paragraph besides those of isBlockElement:
\* one named to WrapTextInside, or one of a custom name
wrapBoundary(cfg, node) == wrapRoot(cfg, node) \/ node.DataAtom = ""

RECURSIVE appendEach(_, _, _)
appendEach(M, n, kids) ==
    IF kids = <<>> THEN M ELSE appendEach(AppendChild(M, n, Head(kids)), n, Tail(kids))

RECURSIVE wrapLoop(_, _)

\* the children of n are taken off, wrapped as the top-level nodes are, and
\* put back
wrapChildren(M, c, n) ==
    LET kids == Children(M.heap, n)
    IN  With(wrapLoop([M |-> DetachAll(M, n, kids), wrapped |-> <<>>, wrapper |-> NoNode,
                       unsupported |-> FALSE, c |-> c], kids), LAMBDA S :
             appendEach([S.M EXCEPT !.unsupported = @ \/ S.unsupported], n, S.wrapped))

\* keepElement without the test for an img that has no src
keepElementAnyImg(M, c, n) ==
    LET node == M.heap[n]
        M1 == Alloc(M, node)
        cp == Ptr(M1)
    IN  With(cleanChildren(M1, c, cp), LAMBDA M2 :
        With(cleanAttrs(Cfg(M2, c), node, node.Attr,
                        [attrs |-> <<>>, haveSrc |-> FALSE]), LAMBDA r :
             LET M3 == [M2 EXCEPT !.heap[cp].Attr = r.attrs]
             IN  [M |-> IF Cfg(M3, c).WrapText /\ wrapRoot(Cfg(M3, c), node)
                        THEN wrapChildren(M3, c, cp) ELSE M3,
                  n |-> cp]))

\* cleanNode, the element is on the list: a copy with the children filtered
\* and the attributes that pass
keepElement(M, c, n) ==
    LET node == M.heap[n]
        M1 == Alloc(M, node)
        cp == Ptr(M1)
    IN  With(cleanChildren(M1, c, cp), LAMBDA M2 :
        With(cleanAttrs(Cfg(M2, c), node, node.Attr,
                        [attrs |-> <<>>, haveSrc |-> FALSE]), LAMBDA r :
             IF node.DataAtom = "img" /\ ~r.haveSrc
             THEN text(M2, <<>>)
             ELSE LET M3 == [M2 EXCEPT !.heap[cp].Attr = r.attrs]
                  IN  [M |-> IF Cfg(M3, c).WrapText /\ wrapRoot(Cfg(M3, c), node)
                             THEN wrapChildren(M3, c, cp) ELSE M3,
                       n |-> cp]))

\* text(Render(n)) in place of text(html.UnescapeString(Render(n)))
demoteEscaped(M, n) == textOfRender(M, n)

\* cleanNode, the element is not on the list: text(html.UnescapeString(Render(n)))
demote(M, n) ==
    With(RenderOne(M, n), LAMBDA rr : text(rr.M, UnescapeString(rr.out)))

cleanNode(M, c, n) ==
    IF \/ M.heap[n].DataAtom \in DOMAIN Cfg(M, c).elem
       \/ customElem(Cfg(M, c), M.heap[n].Data[1])
    THEN keepElement(M, c, n)
    ELSE demote(M, n)

\* filterNode that tells only elements from the rest
filterNodeElementsOnly(M, c, n) ==
    IF M.heap[n].Type # ElementNode THEN [M |-> M, n |-> n] ELSE cleanNode(M, c, n)

filterNode(M, c, n) ==
    LET node == M.heap[n]
    IN  IF node.Type = TextNode THEN [M |-> M, n |-> n]
        ELSE IF node.Type = CommentNode /\ ~Cfg(M, c).EscapeComments THEN [M |-> M, n |-> n]
        ELSE IF node.Type # ElementNode THEN textOfRender(M, n)
        ELSE cleanNode(M, c, n)

\* CleanNode(c, n)
CleanNode(M, c, n) == filterNode(M, OrDefault(c), n)

(***************************************************************************)
(* Parse, ParseDepth, forceMaxDepth                                        *)
(***************************************************************************)
DefaultMaxDepth == 100

\* for n.NextSibling != nil { n.Parent.RemoveChild(n.NextSibling) }
RECURSIVE removeFollowing(_, _)
removeFollowing(M, n) ==
    LET node == M.heap[n]
    IN  IF node.NextSibling = NoNode THEN M
        ELSE IF node.Parent = NoNode THEN [M EXCEPT !.panic = TRUE]
        ELSE removeFollowing(RemoveChild(M, node.Parent, node.NextSibling), n)

RECURSIVE forceMaxDepth(_, _, _)
RECURSIVE forceChildren(_, _, _)

\* for c := n.FirstChild; c != nil; c = c.NextSibling { forceMaxDepth(c, depth-1) }
forceChildren(M, c, depth) ==
    IF c = NoNode THEN M
    ELSE      With(forceMaxDepth(M, c, depth), LAMBDA M1 :
             forceChildren(M1, M1.heap[c].NextSibling, depth))

\* forceMaxDepth that leaves the following siblings where they are
forceMaxDepthKeepSiblings(M, n, depth) ==
    IF depth = 0
    THEN [M EXCEPT !.heap[n].Type = TextNode,
                   !.heap[n].FirstChild = NoNode,
                   !.heap[n].LastChild = NoNode,
                   !.heap[n].Attr = <<>>,
                   !.heap[n].Data = <<OmittedText>>]
    ELSE IF M.heap[n].Type # ElementNode THEN M
    ELSE forceChildren(M, M.heap[n].FirstChild, depth - 1)

forceMaxDepth(M, n, depth) ==
    IF depth = 0
    THEN removeFollowing([M EXCEPT !.heap[n].Type = TextNode,
                                   !.heap[n].FirstChild = NoNode,
                                   !.heap[n].LastChild = NoNode,
                                   !.heap[n].Attr = <<>>,
                                   !.heap[n].Data = <<OmittedText>>], n)
    ELSE IF M.heap[n].Type # ElementNode THEN M
    ELSE forceChildren(M, M.heap[n].FirstChild, depth - 1)

RECURSIVE forceEach(_, _, _)
forceEach(M, nodes, maxDepth) ==
    IF nodes = <<>> THEN M
    ELSE forceEach(forceMaxDepth(M, Head(nodes), maxDepth), Tail(nodes), maxDepth)

\* ParseDepth(fragment, maxDepth): [M, nodes, unsupported]
ParseDepth(M, fragment, maxDepth) ==
        With(ParseFragment(M, fragment), LAMBDA r :
    LET M1 == expectError(r.M, "nil", "nil") IN
        [M |-> IF maxDepth > 0 THEN forceEach(M1, r.nodes, maxDepth) ELSE M1,
         nodes |-> r.nodes, unsupported |-> r.unsupported])

Parse(M, fragment) == ParseDepth(M, fragment, DefaultMaxDepth)

(***************************************************************************)
(* CleanNodes and Clean                                                    *)
(***************************************************************************)
isBlockElement ==
    {"address", "article", "aside", "blockquote", "center", "dd", "details", "dir",
     "div", "dl", "dt", "fieldset", "figcaption", "figure", "footer", "form",
     "h1", "h2", "h3", "h4", "h5", "h6", "header", "hgroup", "hr", "li", "listing",
     "menu", "nav", "ol", "p", "plaintext", "pre", "section", "summary", "table", "ul"}

\* strings.TrimSpace
RECURSIVE TrimLeft(_)
TrimLeft(s) == IF s # <<>> /\ Head(s) = SP THEN TrimLeft(Tail(s)) ELSE s

RECURSIVE TrimRight(_)
TrimRight(s) == IF s # <<>> /\ s[Len(s)] = SP THEN TrimRight(SubSeq(s, 1, Len(s) - 1)) ELSE s

TrimSpace(s) == TrimRight(TrimLeft(s))

\* the first loop of CleanNodes without the wrapping of list items
RECURSIVE filterTopBare(_, _, _, _)
filterTopBare(M, c, nodes, acc) ==
    IF nodes = <<>> THEN [M |-> M, nodes |-> acc]
    ELSE     With(filterNode(M, c, Head(nodes)), LAMBDA r :
             filterTopBare(r.M, c, Tail(nodes), Append(acc, r.n)))

\* the first loop of CleanNodes: filter each node, wrap a list item in a ul
RECURSIVE filterTop(_, _, _, _)
filterTop(M, c, nodes, acc) ==
    IF nodes = <<>> THEN [M |-> M, nodes |-> acc]
    ELSE     With(filterNode(M, c, Head(nodes)), LAMBDA r :
             IF r.M.heap[r.n].DataAtom = "li"
             THEN LET M1 == Alloc(r.M, MkNode(ElementNode, <<"ul">>, "ul", <<>>))
                      wrapper == Ptr(M1)
                      M2 == [M1 EXCEPT !.heap[r.n].Parent = NoNode]
                      M3 == AppendChild(M2, wrapper, r.n)
                  IN  filterTop(M3, c, Tail(nodes), Append(acc, wrapper))
             ELSE filterTop(r.M, c, Tail(nodes), Append(acc, r.n)))

\* appendWrapper that adds the paragraph as it is
appendWrapperWhole(S) ==
    IF S.wrapper = NoNode THEN S
    ELSE [S EXCEPT !.wrapped = Append(@, S.wrapper), !.wrapper = NoNode]

\* appendWrapper: [M, wrapped, unsupported]; the wrapper is rendered and
\* parsed again
appendWrapper(S) ==
    IF S.wrapper = NoNode THEN S
    ELSE     With(RenderOne(S.M, S.wrapper), LAMBDA r :
             With(ParseDepth(r.M, r.out, 0), LAMBDA p :
             [M |-> p.M, wrapped |-> S.wrapped \o p.nodes, wrapper |-> NoNode,
              unsupported |-> S.unsupported \/ p.unsupported, c |-> S.c]))

\* the loop of CleanNodes under c.WrapText, S.c being the Config
wrapLoop(S, nodes) ==
    IF nodes = <<>> THEN appendWrapper(S)
    ELSE LET n == Head(nodes)
             node == S.M.heap[n]
         IN  IF /\ node.Type = ElementNode
                /\ \/ node.DataAtom \in isBlockElement
                   \/ wrapBoundary(Cfg(S.M, S.c), node)
             THEN LET S1 == appendWrapper(S)
                  IN  wrapLoop([S1 EXCEPT !.wrapped = Append(@, n)], Tail(nodes))
             ELSE IF S.wrapper = NoNode /\ node.Type = TextNode /\ TrimSpace(node.Data) = <<>>
             THEN wrapLoop([S EXCEPT !.wrapped = Append(@, n)], Tail(nodes))
             ELSE LET M1 == IF S.wrapper = NoNode
                            THEN Alloc(S.M, MkNode(ElementNode, <<"p">>, "p", <<>>))
                            ELSE S.M
                      w == IF S.wrapper = NoNode THEN Ptr(M1) ELSE S.wrapper
                  IN  wrapLoop([S EXCEPT !.M = AppendChild(M1, w, n), !.wrapper = w],
                               Tail(nodes))

\* the body of CleanNodes, c not nil: [M, nodes, unsupported]
cleanNodes(M, c, nodes) ==
    With(filterTop(M, c, nodes, <<>>), LAMBDA f :
         IF Cfg(f.M, c).WrapText
         THEN With(wrapLoop([M |-> f.M, wrapped |-> <<>>, wrapper |-> NoNode,
                             unsupported |-> FALSE, c |-> c], f.nodes), LAMBDA w :
                   [M |-> w.M, nodes |-> w.wrapped,
                    unsupported |-> w.unsupported \/ w.M.unsupported])
         ELSE [M |-> f.M, nodes |-> f.nodes, unsupported |-> f.M.unsupported])

\* CleanNodes that first puts its wrapper elements on the list of the policy
CleanNodesRegistering(M, c0, nodes) ==
    cleanNodes(SetCfg(M, OrDefault(c0), ElemAtom(Cfg(M, OrDefault(c0)), <<"ul", "p">>)),
               OrDefault(c0), nodes)

\* CleanNodes(c, nodes): [M, nodes, unsupported]
CleanNodes(M, c0, nodes) == cleanNodes(M, OrDefault(c0), nodes)

\* Clean(c, fragment): [M, out, unsupported]
Clean(M, c, fragment) ==
        With(Parse(M, fragment), LAMBDA p :
        With(CleanNodes(p.M, c, p.nodes), LAMBDA n :
        With(Render(n.M, n.nodes), LAMBDA r :
        [M |-> r.M, out |-> r.out, unsupported |-> p.unsupported \/ n.unsupported])))

(***************************************************************************)
(* Preprocess                                                              *)
(***************************************************************************)
\* preprocessToken that writes every tag as it was read
preprocessTokenRaw(cfg, tok) ==
    CASE tok.Type = ErrorToken -> EscapeString(tok.Raw)
      [] tok.Type = TextToken -> tok.Raw
      [] tok.Type \in {StartTagToken, EndTagToken, SelfClosingTagToken} -> tok.Raw
      [] tok.Type = CommentToken ->
            IF \/ cfg.EscapeComments
               \/ ~HasPrefix(tok.Raw, <<LT, BANGDASH>>)
               \/ ~HasSuffix(tok.Raw, <<DASHDASH, GT>>)
            THEN EscapeString(tok.Raw) ELSE tok.Raw
      [] OTHER -> EscapeString(tok.Raw)

\* preprocessToken that writes nothing at the end of the input
preprocessTokenDropLast(cfg, tok) ==
    CASE tok.Type = ErrorToken -> <<>>
      [] tok.Type = TextToken -> tok.Raw
      [] tok.Type \in {StartTagToken, EndTagToken, SelfClosingTagToken} ->
            IF Lookup(tok.Name) \in DOMAIN cfg.elem \/ customElem(cfg, tok.Name)
            THEN tok.Raw ELSE EscapeString(tok.Raw)
      [] tok.Type = CommentToken ->
            IF \/ cfg.EscapeComments
               \/ ~HasPrefix(tok.Raw, <<LT, BANGDASH>>)
               \/ ~HasSuffix(tok.Raw, <<DASHDASH, GT>>)
            THEN EscapeString(tok.Raw) ELSE tok.Raw
      [] OTHER -> EscapeString(tok.Raw)

\* preprocessToken that asks a comment for its first bytes only
preprocessTokenOpenComment(cfg, tok) ==
    CASE tok.Type = ErrorToken -> EscapeString(tok.Raw)
      [] tok.Type = TextToken -> tok.Raw
      [] tok.Type \in {StartTagToken, EndTagToken, SelfClosingTagToken} ->
            IF Lookup(tok.Name) \in DOMAIN cfg.elem \/ customElem(cfg, tok.Name)
            THEN tok.Raw ELSE EscapeString(tok.Raw)
      [] tok.Type = CommentToken ->
            IF cfg.EscapeComments \/ ~HasPrefix(tok.Raw, <<LT, BANGDASH>>)
            THEN EscapeString(tok.Raw) ELSE tok.Raw
      [] OTHER -> EscapeString(tok.Raw)

\* what Preprocess writes for one token
preprocessToken(cfg, tok) ==
    CASE tok.Type = ErrorToken -> EscapeString(tok.Raw)
      [] tok.Type = TextToken -> tok.Raw
      [] tok.Type \in {StartTagToken, EndTagToken, SelfClosingTagToken} ->
            IF Lookup(tok.Name) \in DOMAIN cfg.elem \/ customElem(cfg, tok.Name)
            THEN tok.Raw ELSE EscapeString(tok.Raw)
      [] tok.Type = CommentToken ->
            IF \/ cfg.EscapeComments
               \/ ~HasPrefix(tok.Raw, <<LT, BANGDASH>>)
               \/ ~HasSuffix(tok.Raw, <<DASHDASH, GT>>)
            THEN EscapeString(tok.Raw) ELSE tok.Raw
      [] OTHER -> EscapeString(tok.Raw)

RECURSIVE preprocessLoop(_, _, _, _)
preprocessLoop(M, c, toks, buf) ==
    IF toks = <<>> THEN [M |-> M, out |-> buf]
    ELSE LET tok == Head(toks) IN
         LET M1 == IF tok.Type = ErrorToken THEN expectError(M, "EOF", "EOF") ELSE M IN
                With(buf \o preprocessToken(Cfg(M1, c), tok), LAMBDA buf1 :
             IF tok.Type = ErrorToken THEN [M |-> M1, out |-> buf1]
             ELSE preprocessLoop(M1, c, Tail(toks), buf1))

\* Preprocess(config, fragment): [M, out]
Preprocess(M, c, fragment) == preprocessLoop(M, OrDefault(c), Tokens(fragment), <<>>)

(***************************************************************************)
(* Bounds and inputs                                                       *)
(***************************************************************************)
\* markup pieces in a fragment of mixed markup
MaxTokens == 2

\* attributes on the element of a fragment with one element
MaxAttrs == 2

\* start tags opened inside one another
MaxNest == 3

SeqsUpTo(S, n) == UNION {[1..k -> S] : k \in 0..n}

OpenTag(name) == <<LT, name, GT>>

CloseTag(name) == <<LT, SL, name, GT>>

AttrText(k, v) == <<SP, k, EQ, DQ>> \o v \o <<DQ>>

SoupPieces ==
    {OpenTag("b"), CloseTag("b"), OpenTag("li"), OpenTag("script"), <<"x">>,
     <<LT, BANGDASH, "c", DASHDASH, GT>>, <<AMP, "lt", SEMI>>, <<LT>>}

SoupFragments == {Flatten(s) : s \in SeqsUpTo(SoupPieces, MaxTokens)}

\* an element with content, without attributes
Around(e, inner) == OpenTag(e) \o inner \o CloseTag(e)

\* markup that is not a start tag of the soup: a doctype, a processing
\* instruction, self-closing tags, an end tag, text with a bare ">"
MarkupPieces ==
    {<<LT, BANGDOCTYPE, SP, "html", GT>>, <<LT, QMARK, "php", GT>>,
     <<LT, "br", SL, GT>>, <<LT, "b", SL, GT>>, CloseTag("script"), <<"x", GT>>,
     <<LT, BANGDASH, "c", DASHDASH, GT>>, <<LT, BANG, "[CDATA[x]]", GT>>,
     <<LT, QMARK, "xml", QMARK, GT>>, <<LT, BANGDASH, "c">>}

MarkupFragments == {Flatten(s) : s \in SeqsUpTo(MarkupPieces, MaxTokens)}

\* text and tags, and tags that the end of the input cuts: in the name, in
\* an attribute value, in an end tag
CutPieces ==
    {<<"foo">>, OpenTag("b"), <<LT, "bar">>, <<LT, SL, "b">>,
     <<LT, "a", SP, "href", EQ, DQ, "x">>}

CutFragments == {Flatten(s) : s \in SeqsUpTo(CutPieces, MaxTokens)}

\* a button, which is not block-level, holding block-level content, and text
ButtonFragments ==
    {Around("button", Around("div", <<"x">>)),
     <<"a">> \o Around("button", Around("p", <<"x">>)),
     Around("button", <<"x">>) \o Around("div", <<"y">>),
     OpenTag("button") \o <<"x">> \o OpenTag("button") \o <<"y">>}

\* pieces of a fragment with inline and block-level content
MaxWrap == 3

WrapPieces ==
    {<<"a">>, <<SP>>, OpenTag("em"), OpenTag("em") \o <<"x">> \o CloseTag("em"),
     OpenTag("p") \o <<"b">> \o CloseTag("p"),
     OpenTag("blockquote") \o <<"b">> \o CloseTag("blockquote")}

WrapFragments == {Flatten(s) : s \in SeqsUpTo(WrapPieces, MaxWrap)}

\* what stands inside an svg or math element: text, links with a URL, with a
\* script URL, with an attribute of the namespace xlink, an empty svg
ForeignPieces ==
    {<<"x">>,
     <<LT, "a">> \o AttrText("href", <<"y">>) \o <<GT, "x">> \o CloseTag("a"),
     <<LT, "a">> \o AttrText("href", <<"javascript", COLON, "x">>) \o <<GT, "x">>,
     <<LT, "a">> \o AttrText("xlink:href", <<"z">>) \o AttrText("title", <<"t">>)
         \o <<GT, "x">> \o CloseTag("a"),
     <<LT, "svg", SL, GT>>}

\* foreign content at the top and inside an element
ForeignFragments ==
    {OpenTag(r) \o Flatten(s) \o CloseTag(r) :
        r \in {"svg", "math"}, s \in SeqsUpTo(ForeignPieces, MaxTokens)}
    \cup {OpenTag("b") \o OpenTag(r) \o Flatten(s) \o CloseTag(r) \o CloseTag("b") :
            r \in {"svg", "math"}, s \in SeqsUpTo(ForeignPieces, MaxTokens)}

AttrPieces ==
    {AttrText("href", <<"javascript", COLON, "x">>),
     AttrText("href", <<"JavaScript", COLON, "x">>),
     AttrText("href", <<"HTTP", COLON, SL, SL, "h", SL, "a", SP, "b">>),
     AttrText("href", <<"h", PCT>>),
     AttrText("src", <<"y">>),
     AttrText("poster", <<"javascript", COLON, "x">>),
     AttrText("title", <<"t">>),
     AttrText("onclick", <<"z">>)}

AttrElements == {"a", "img", "video"}

\* the attributes of an image: sources that pass, that carry a script, that do
\* not parse, that a pattern asks for, and a text
ImgPieces ==
    {AttrText("src", <<"y">>),
     AttrText("src", <<"javascript", COLON, "x">>),
     AttrText("src", <<"h", PCT>>),
     AttrText("src", <<"fa-spin">>),
     AttrText("alt", <<"t">>)}

ImgFragments == {<<LT, "img">> \o Flatten(s) \o <<GT>> : s \in SeqsUpTo(ImgPieces, MaxAttrs)}

AttrFragments ==
    {<<LT, e>> \o Flatten(s) \o <<GT, "x">> :
        e \in AttrElements, s \in SeqsUpTo(AttrPieces, MaxAttrs)}

\* what stands inside an element that the depth limit cuts: text, a comment,
\* an element, an element with an attribute that takes in what follows
DepthPieces ==
    {<<"x">>, <<LT, BANGDASH, "c", DASHDASH, GT>>, Around("em", <<"y">>),
     <<LT, "i">> \o AttrText("title", <<"t">>) \o <<GT>>}

DepthFragments == {OpenTag("b") \o Flatten(s) : s \in SeqsUpTo(DepthPieces, MaxTokens)}

NestElements == {"b", "li", "em"}

NestFragments ==
    {Flatten([i \in 1..Len(s) |-> OpenTag(s[i])]) \o <<"x">> :
        s \in SeqsUpTo(NestElements, MaxNest)}

\* the policies a caller passes
ListConfig == ElemAtom(ZeroConfig, <<"ul", "li">>)

ItemConfig == ElemAtom(ZeroConfig, <<"li", "b">>)

wrapConfig == [DefaultConfig EXCEPT !.WrapText = TRUE]

BareWrapConfig == [ElemAtom(ZeroConfig, <<"b">>) EXCEPT !.WrapText = TRUE]

EscapeConfig == [DefaultConfig EXCEPT !.EscapeComments = TRUE]

ScriptURLConfig == [DefaultConfig EXCEPT !.AllowJavascriptURL = TRUE]

\* a Config that lets script URLs pass, and only those on a link
ScriptOnlyConfig ==
    [ElemAttrAtomMatch(GlobalAttrAtom(ZeroConfig, "title"), "a", "href", "^javascript:")
        EXCEPT !.AllowJavascriptURL = TRUE, !.ValidateURL = "SafeURLScheme"]

\* a Config that allows svg, links inside and outside of it, and b
ForeignConfig ==
    GlobalAttrAtom(ElemAttrAtom(ElemAtom(ZeroConfig, <<"svg", "b">>), "a", <<"href">>), "title")

\* a Config that allows img without src, and one that asks the src of an img
\* to match a pattern
ImgAltConfig == ElemAttrAtom(ZeroConfig, "img", <<"alt">>)

ImgPatternConfig == ElemAttrAtomMatch(ImgAltConfig, "img", "src", "^fa-spin$")

\* a Config that wraps text and allows button, div and p
ButtonWrapConfig == [ElemAtom(ZeroConfig, <<"button", "div", "p">>) EXCEPT !.WrapText = TRUE]

\* the Config of ExampleClean
exampleConfig ==
    [ElemAttrAtomMatch(ElemAttrAtom(ZeroConfig, "a", <<"href">>), "span", "class", "^fa-spin$")
        EXCEPT !.ValidateURL = "NotHttp"]

\* [c, config, fragment, maxDepth]: the arguments of a call
Call(c, cfg, frag, d) == [c |-> c, config |-> cfg, fragment |-> frag, maxDepth |-> d]

Calls ==
    {Call(NilConfig, ZeroConfig, f, DefaultMaxDepth) : f \in SoupFragments \cup AttrFragments}
    \cup {Call(UserConfig, cfg, f, DefaultMaxDepth) :
            cfg \in {ItemConfig, wrapConfig, EscapeConfig}, f \in SoupFragments}
    \cup {Call(UserConfig, cfg, f, DefaultMaxDepth) :
            cfg \in {ScriptURLConfig, ScriptOnlyConfig, exampleConfig}, f \in AttrFragments}
    \cup {Call(c, EscapeConfig, f, DefaultMaxDepth) :
            c \in {NilConfig, UserConfig}, f \in MarkupFragments}
    \cup {Call(c, wrapConfig, f, DefaultMaxDepth) :
            c \in {NilConfig, UserConfig}, f \in WrapFragments}
    \cup {Call(c, ForeignConfig, f, DefaultMaxDepth) :
            c \in {NilConfig, UserConfig}, f \in ForeignFragments}
    \cup {Call(UserConfig, cfg, f, DefaultMaxDepth) :
            cfg \in {DefaultConfig, ScriptURLConfig, ImgAltConfig, ImgPatternConfig},
            f \in ImgFragments}
    \cup {Call(UserConfig, cfg, f, d) :
            cfg \in {ListConfig, ItemConfig, BareWrapConfig}, f \in NestFragments, d \in {1, 2}}
    \cup {Call(NilConfig, ZeroConfig, f, d) : f \in DepthFragments, d \in {0, 1, 2}}
    \cup {Call(NilConfig, ZeroConfig, f, DefaultMaxDepth) : f \in CutFragments}
    \cup {Call(UserConfig, ButtonWrapConfig, f, DefaultMaxDepth) : f \in ButtonFragments}

\* the fragment parser is modelled for these fragments
Supported(frag) == ~ParseFragment(MkMem(<<>>), frag).unsupported

(***************************************************************************)
(* The state machine: callers of the package                                *)
(***************************************************************************)
Workers == {1, 2}

VARIABLES
    config,         \* the caller's Config object, shared by the calls
    defaultConfig,  \* the package variable DefaultConfig
    cptr,           \* cptr[w]: the *Config the caller passes
    heap,           \* heap[w]: the nodes of the call
    pc,             \* pc[w]: where the caller is
    fragment,       \* fragment[w]: the input string
    maxDepth,       \* maxDepth[w]: the limit passed to ParseDepth
    nodes,          \* nodes[w]: the current top-level nodes
    idx,            \* idx[w]: the next node to pass to CleanNode
    inHeap,         \* inHeap[w]: the nodes as Parse returned them
    inNodes,        \* inNodes[w]: the top-level nodes Parse returned
    out,            \* out[w]: the string result
    firstOut,       \* firstOut[w]: the result of the first Clean
    built           \* the builder calls made on the caller's Config, each with
                    \* the Config it was made on

vars == <<config, defaultConfig, cptr, heap, pc, fragment, maxDepth, nodes, idx,
          inHeap, inNodes, out, firstOut, built>>

Mem(w) == MkMemCfg(heap[w], config, defaultConfig)

InitCommon ==
    /\ defaultConfig = DefaultConfig
    /\ heap = [w \in Workers |-> <<>>]
    /\ nodes = [w \in Workers |-> <<>>]
    /\ idx = [w \in Workers |-> 1]
    /\ inHeap = [w \in Workers |-> <<>>]
    /\ inNodes = [w \in Workers |-> <<>>]
    /\ out = [w \in Workers |-> <<>>]
    /\ firstOut = [w \in Workers |-> <<>>]
    /\ built = <<>>

\* the nodes a caller of CleanNode makes itself rather than parses: a node and
\* the children it appends to it. The parser never returns a Doctype node for
\* a fragment; a caller can hold one.
Own(node, kids) == [node |-> node, kids |-> kids]

OwnDoctype(d) == MkNode(DoctypeNode, d, "", <<>>)

OwnComment(d) == MkNode(CommentNode, d, "", <<>>)

OwnText(d) == MkNode(TextNode, d, "", <<>>)

OwnPieces ==
    {Own(OwnDoctype(<<"html">>), <<>>),
     Own(OwnDoctype(<<"a", AMP, "b">>), <<>>),
     Own(OwnComment(<<"c">>), <<>>),
     Own(OwnText(<<"x", LT>>), <<>>),
     Own(MkNode(ElementNode, <<"b">>, Lookup("b"), <<>>),
         <<OwnDoctype(<<"html">>), OwnComment(<<"c">>), OwnText(<<"x">>)>>)}

OwnLists == SeqsUpTo(OwnPieces, MaxTokens)

\* an img without src to which the caller has appended a child: html.Render
\* refuses it, so it is passed under a policy that allows img
OwnImg ==
    Own(MkNode(ElementNode, <<"img">>, Lookup("img"), <<MkAttr("alt", <<"t">>)>>),
        <<OwnText(<<"x">>)>>)

\* [config, list]: the policy and the nodes of a caller that makes its nodes
OwnCalls ==
    {[config |-> cfg, list |-> l] :
        cfg \in {DefaultConfig, EscapeConfig, ZeroConfig}, l \in OwnLists}
    \cup {[config |-> DefaultConfig, list |-> <<OwnImg>> \o l] : l \in SeqsUpTo(OwnPieces, 1)}

\* n.AppendChild(&html.Node{...}) for each of kids
RECURSIVE AppendNew(_, _, _)
AppendNew(M, n, kids) ==
    IF kids = <<>> THEN M
    ELSE With(Alloc(M, Head(kids)), LAMBDA M1 :
              AppendNew(AppendChild(M1, n, Ptr(M1)), n, Tail(kids)))

\* the caller makes the nodes of a list; the result is [M, nodes]
RECURSIVE MakeNodes(_, _)
MakeNodes(M, list) ==
    IF list = <<>> THEN [M |-> M, nodes |-> <<>>]
    ELSE With(Alloc(M, Head(list).node), LAMBDA M1 :
         With(MakeNodes(AppendNew(M1, Ptr(M1), Head(list).kids), Tail(list)), LAMBDA r :
              [M |-> r.M, nodes |-> <<Ptr(M1)>> \o r.nodes]))

\* one caller that starts from a string
InitCall ==
    /\ \E a \in Calls :
        /\ Supported(a.fragment)
        /\ config = a.config
        /\ cptr = [w \in Workers |-> a.c]
        /\ fragment = [w \in Workers |-> a.fragment]
        /\ maxDepth = [w \in Workers |-> a.maxDepth]
    /\ pc = [w \in Workers |-> IF w = 1 THEN "input" ELSE "off"]
    /\ InitCommon

\* one caller that starts from nodes it made
InitOwn ==
    /\ \E c \in {NilConfig, UserConfig}, a \in OwnCalls :
        With(MakeNodes(MkMem(<<>>), a.list), LAMBDA r :
             /\ config = a.config
             /\ cptr = [w \in Workers |-> c]
             /\ heap = [w \in Workers |-> IF w = 1 THEN r.M.heap ELSE <<>>]
             /\ nodes = [w \in Workers |-> IF w = 1 THEN r.nodes ELSE <<>>]
             /\ inHeap = [w \in Workers |-> IF w = 1 THEN r.M.heap ELSE <<>>]
             /\ inNodes = [w \in Workers |-> IF w = 1 THEN r.nodes ELSE <<>>])
    /\ fragment = [w \in Workers |-> <<>>]
    /\ maxDepth = [w \in Workers |-> DefaultMaxDepth]
    /\ pc = [w \in Workers |-> IF w = 1 THEN "made" ELSE "off"]
    /\ defaultConfig = DefaultConfig
    /\ idx = [w \in Workers |-> 1]
    /\ out = [w \in Workers |-> <<>>]
    /\ firstOut = [w \in Workers |-> <<>>]
    /\ built = <<>>

Init == InitCall \/ InitOwn

\* what a call leaves behind: memory M, and the caller at p (or panicked)
Return(w, M, p) ==
    /\ heap' = [heap EXCEPT ![w] = M.heap]
    /\ config' = M.config
    /\ defaultConfig' = M.DefaultConfig
    /\ pc' = [pc EXCEPT ![w] = IF M.panic THEN "panicked" ELSE p]

DoPreprocess(w) ==
    /\ pc[w] = "input"
    /\     With(Preprocess(Mem(w), cptr[w], fragment[w]), LAMBDA r :
           /\ Return(w, r.M, "preprocessed")
           /\ out' = [out EXCEPT ![w] = r.out])
    /\ UNCHANGED <<built, cptr, fragment, maxDepth, nodes, idx, inHeap, inNodes, firstOut>>

DoClean(w) ==
    /\ pc[w] = "input"
    /\     With(Clean(Mem(w), cptr[w], fragment[w]), LAMBDA r :
           /\ Return(w, r.M, "clean1")
           /\ out' = [out EXCEPT ![w] = r.out])
    /\ UNCHANGED <<built, cptr, fragment, maxDepth, nodes, idx, inHeap, inNodes, firstOut>>

\* the caller passes the result of Clean to Clean
DoCleanAgain(w) ==
    /\ pc[w] = "clean1"
    /\ Supported(out[w])
    /\     With(Clean(MkMemCfg(<<>>, config, defaultConfig), cptr[w], out[w]), LAMBDA r :
           /\ ~r.unsupported
           /\ Return(w, r.M, "clean2")
           /\ out' = [out EXCEPT ![w] = r.out])
    /\ firstOut' = [firstOut EXCEPT ![w] = out[w]]
    /\ UNCHANGED <<built, cptr, fragment, maxDepth, nodes, idx, inHeap, inNodes>>

DoParse(w) ==
    /\ pc[w] = "input"
    /\     With(ParseDepth(Mem(w), fragment[w], maxDepth[w]), LAMBDA r :
           /\ Return(w, r.M, "parsed")
           /\ nodes' = [nodes EXCEPT ![w] = r.nodes]
           /\ inNodes' = [inNodes EXCEPT ![w] = r.nodes]
           /\ inHeap' = [inHeap EXCEPT ![w] = r.M.heap])
    /\ UNCHANGED <<built, cptr, fragment, maxDepth, idx, out, firstOut>>

DoCleanNodes(w) ==
    /\ pc[w] \in {"parsed", "made"}
    /\     With(CleanNodes(Mem(w), cptr[w], nodes[w]), LAMBDA r :
           /\ ~r.unsupported
           /\ Return(w, r.M, "cleaned")
           /\ nodes' = [nodes EXCEPT ![w] = r.nodes])
    /\ UNCHANGED <<built, cptr, fragment, maxDepth, idx, inHeap, inNodes, out, firstOut>>

\* the caller passes the nodes to CleanNode one by one
DoCleanNode(w) ==
    /\ pc[w] \in {"parsed", "made", "cleaning"}
    /\ idx[w] <= Len(nodes[w])
    /\     With(CleanNode(Mem(w), cptr[w], nodes[w][idx[w]]), LAMBDA r :
           /\ Return(w, r.M, IF idx[w] = Len(nodes[w]) THEN "cleanedEach" ELSE "cleaning")
           /\ nodes' = [nodes EXCEPT ![w][idx[w]] = r.n])
    /\ idx' = [idx EXCEPT ![w] = @ + 1]
    /\ UNCHANGED <<built, cptr, fragment, maxDepth, inHeap, inNodes, out, firstOut>>

DoRender(w) ==
    /\ pc[w] \in {"cleaned", "cleanedEach"}
    /\     With(Render(Mem(w), nodes[w]), LAMBDA r :
           /\ Return(w, r.M, IF pc[w] = "cleaned" THEN "rendered" ELSE "renderedEach")
           /\ out' = [out EXCEPT ![w] = r.out])
    /\ UNCHANGED <<built, cptr, fragment, maxDepth, nodes, idx, inHeap, inNodes, firstOut>>

Next ==
    \E w \in Workers :
        \/ DoPreprocess(w)
        \/ DoClean(w)
        \/ DoCleanAgain(w)
        \/ DoParse(w)
        \/ DoCleanNodes(w)
        \/ DoCleanNode(w)
        \/ DoRender(w)

Spec == Init /\ [][Next]_vars

\* the policies two callers share
ConcPolicies == {ItemConfig, wrapConfig, exampleConfig}

\* the inputs of two callers that share a policy
ConcFragments ==
    {OpenTag("li") \o <<"x">>,
     OpenTag("em") \o OpenTag("b") \o <<"x">>,
     <<LT, "a">> \o AttrText("href", <<"javascript", COLON, "x">>) \o <<GT, "x">>,
     <<"x", LT, BANGDASH, "c", DASHDASH, GT>>}

\* two callers, each with its own input, pass the same *Config or nil
InitConc ==
    /\ config \in ConcPolicies
    /\ cptr \in [Workers -> {NilConfig, UserConfig}]
    /\ fragment \in [Workers -> ConcFragments]
    /\ maxDepth = [w \in Workers |-> DefaultMaxDepth]
    /\ pc = [w \in Workers |-> "input"]
    /\ InitCommon

SpecConc == InitConc /\ [][Next]_vars

(***************************************************************************)
(* A caller that sanitizes, changes its Config, and sanitizes again        *)
(***************************************************************************)
\* builder calls made on one Config
MaxBuilt == 1

\* the names given to the builder methods
BuildElems == {"p", "custom-element"}

BuildAttrs == {"title", "data-original-title"}

BuildPatterns == {"or"}

\* the attributes of an element of the caller's input
ConfigAttrLists ==
    {<<>>,
     AttrText("title", <<"Hello">>),
     AttrText("title", <<"World">>),
     AttrText("data-original-title", <<"Hello">>),
     AttrText("data-original-title", <<"World">>),
     AttrText("title", <<"Hello">>) \o AttrText("data-original-title", <<"World">>)}

ConfigElement(e, attrs) == <<LT, e>> \o attrs \o <<GT, "Hello">> \o CloseTag(e)

\* one element, or two elements of different names with the same attributes
ConfigFragments ==
    {ConfigElement(e, a) : e \in BuildElems, a \in ConfigAttrLists}
    \cup {ConfigElement(e[1], a) \o ConfigElement(e[2], a) :
            e \in {<<"p", "custom-element">>, <<"custom-element", "p">>},
            a \in ConfigAttrLists}

\* the Config the caller starts from
ConfigBases ==
    {ZeroConfig,
     Elem(ZeroConfig, <<"p">>),
     Elem(ZeroConfig, <<"p", "custom-element">>),
     ElemAttr(ZeroConfig, "p", <<"title">>),
     ElemAttrMatch(ElemAttrMatch(ZeroConfig, "p", "title", "^Hello$"),
                   "custom-element", "data-original-title", "^Hello$")}

\* text, a block-level and an inline element, and an element of a custom name
InsidePieces ==
    {<<"a">>, Around("blockquote", <<"b">>), Around("custom-element", <<"d">>),
     Around("em", <<"x">>)}

InsideFragments == {Flatten(s) : s \in SeqsUpTo(InsidePieces, MaxTokens)}

\* the Config of TestConfig/WrapText, with em
InsideBase ==
    Elem([ZeroConfig EXCEPT !.WrapText = TRUE], <<"p", "blockquote", "custom-element", "em">>)

\* the names the caller passes to WrapTextInside
InsideNames ==
    {<<"blockquote">>, <<"custom-element">>, <<"em">>, <<"blockquote", "custom-element">>}

InitConfig ==
    /\ \/ /\ config \in ConfigBases
          /\ fragment \in {[w \in Workers |-> f] : f \in ConfigFragments}
       \/ /\ config = InsideBase
          /\ fragment \in {[w \in Workers |-> f] : f \in InsideFragments}
    /\ cptr = [w \in Workers |-> UserConfig]
    /\ maxDepth = [w \in Workers |-> DefaultMaxDepth]
    /\ pc = [w \in Workers |-> IF w = 1 THEN "input" ELSE "off"]
    /\ InitCommon

\* Clean(c, Preprocess(c, input)): the second half
DoCleanPreprocessed(w) ==
    /\ pc[w] = "preprocessed"
    /\ Supported(out[w])
    /\     With(Clean(MkMemCfg(<<>>, config, defaultConfig), cptr[w], out[w]), LAMBDA r :
           /\ ~r.unsupported
           /\ Return(w, r.M, "sanitized")
           /\ out' = [out EXCEPT ![w] = r.out])
    /\ UNCHANGED <<built, cptr, fragment, maxDepth, nodes, idx, inHeap, inNodes, firstOut>>

\* the caller, holding a result, calls a builder method on its Config and
\* starts over with the same input
Built(w, op, elem, attr, match, cfg) ==
    /\ config' = cfg
    /\ built' = Append(built, [op |-> op, elem |-> elem, attr |-> attr, match |-> match,
                               before |-> config, ret |-> cptr[w]])
    /\ firstOut' = [firstOut EXCEPT ![w] = out[w]]
    /\ pc' = [pc EXCEPT ![w] = "input"]
    /\ heap' = [heap EXCEPT ![w] = <<>>]
    /\ UNCHANGED <<defaultConfig, cptr, fragment, maxDepth, nodes, idx, inHeap, inNodes, out>>

\* the caller may call a builder method now
Building(w) == pc[w] = "sanitized" /\ cptr[w] = UserConfig /\ Len(built) < MaxBuilt

DoElem(w) ==
    /\ Building(w)
    /\ \E e \in BuildElems : Built(w, "Elem", e, "", NoPattern, Elem(config, <<e>>))

DoGlobalAttr(w) ==
    /\ Building(w)
    /\ \E a \in BuildAttrs :
          Built(w, "GlobalAttr", "", a, NoPattern, GlobalAttr(config, <<a>>))

DoElemAttr(w) ==
    /\ Building(w)
    /\ \E e \in BuildElems, a \in BuildAttrs :
          Built(w, "ElemAttr", e, a, NoPattern, ElemAttr(config, e, <<a>>))

DoElemAttrMatch(w) ==
    /\ Building(w)
    /\ \E e \in BuildElems, a \in BuildAttrs, re \in BuildPatterns :
          Built(w, "ElemAttrMatch", e, a, re, ElemAttrMatch(config, e, a, re))

\* elem holds the names
DoWrapTextInside(w) ==
    /\ Building(w)
    /\ \E names \in InsideNames :
          Built(w, "WrapTextInside", names, "", NoPattern, WrapTextInside(config, names))

NextConfig ==
    \E w \in Workers :
        \/ DoPreprocess(w)
        \/ DoCleanPreprocessed(w)
        \/ DoWrapTextInside(w)
        \/ DoElem(w)
        \/ DoGlobalAttr(w)
        \/ DoElemAttr(w)
        \/ DoElemAttrMatch(w)

SpecConfig == InitConfig /\ [][NextConfig]_vars

(***************************************************************************)
(* What the properties speak of                                            *)
(***************************************************************************)
\* the nodes of the tree rooted at n
RECURSIVE Subtree(_, _)
Subtree(h, n) ==
    LET kids == Children(h, n)
    IN  {n} \cup UNION {Subtree(h, kids[i]) : i \in 1..Len(kids)}

\* the nodes of the trees rooted at ns
Trees(h, ns) == UNION {Subtree(h, ns[i]) : i \in 1..Len(ns)}

Elements(h, ns) == {n \in Trees(h, ns) : h[n].Type = ElementNode}

\* the policy the call of worker w works under
Policy(w) == Cfg(Mem(w), OrDefault(cptr[w]))

\* element n of h is on the allow-list of cfg, and so is each of its attributes
ElementAllowed(cfg, h, n) ==
    /\ Lookup(h[n].Data[1]) \in DOMAIN cfg.elem
    /\ h[n].DataAtom \in DOMAIN cfg.elem
    /\ \A i \in 1..Len(h[n].Attr) :
          \/ Lookup(h[n].Attr[i].Key) \in DOMAIN cfg.elem[h[n].DataAtom]
          \/ Lookup(h[n].Attr[i].Key) \in cfg.attr

\* the caller has passed every node through CleanNode
Filtered(w) == pc[w] = "cleanedEach"

\* C1: in the trees CleanNode returns, every Element has a tag that is a key of
\* the policy's element map, and each of its attributes is in that element's
\* allowed set or in the policy's global set.
C1_FilterOutputAllowed ==
    \A w \in Workers :
        Filtered(w) =>
            \A n \in Elements(heap[w], nodes[w]) : ElementAllowed(Policy(w), heap[w], n)

\* C1's case: the filter met an element that carries an attribute off the
\* list, and returned an element that still carries an attribute
C1_Witness ==
    \E w \in Workers :
        /\ Filtered(w)
        /\ \E n \in Elements(inHeap[w], inNodes[w]) :
              ~ElementAllowed(Policy(w), inHeap[w], n)
        /\ \E n \in Elements(heap[w], nodes[w]) : heap[w][n].Attr # <<>>

\* the caller has passed the nodes through CleanNodes
Repaired(w) == pc[w] = "cleaned"

\* the start tags of a rendered text
StartTags(str) ==
    LET toks == Tokens(str)
    IN  {toks[i].Name : i \in {j \in 1..Len(toks) :
                                 toks[j].Type \in {StartTagToken, SelfClosingTagToken}}}

\* C2: every element in the output of the full pipeline (parse, depth guard,
\* CleanNodes with its list-item and paragraph wrappers, render) has a tag in
\* the policy's element map and only attributes the policy allows.
C2_PipelineOutputAllowed ==
    \A w \in Workers :
        /\ Repaired(w) =>
              \A n \in Elements(heap[w], nodes[w]) : ElementAllowed(Policy(w), heap[w], n)
        /\ pc[w] = "clean1" =>
              \A t \in StartTags(out[w]) : Lookup(t) \in DOMAIN Policy(w).elem

\* the value of a URL attribute has the scheme javascript, in any letter case
JavascriptScheme(v) == Len(v) >= 2 /\ ToLower(v[1]) = "javascript" /\ v[2] = COLON

URLAttrs == {"href", "src", "poster"}

\* element n of h carries a URL attribute with the scheme javascript
CarriesScript(h, n) ==
    \E i \in 1..Len(h[n].Attr) :
        Lookup(h[n].Attr[i].Key) \in URLAttrs /\ JavascriptScheme(h[n].Attr[i].Val)

\* C3: when AllowJavascriptURL is not set, no element in the output of the
\* filter carries an href, src or poster whose value has the scheme
\* javascript, in any letter case.
C3_NoJavascriptURL ==
    \A w \in Workers :
        (Filtered(w) \/ Repaired(w)) /\ ~Policy(w).AllowJavascriptURL =>
            \A n \in Elements(heap[w], nodes[w]) : ~CarriesScript(heap[w], n)

\* C3's case: the input carried JavaScript: in a URL attribute of an element
\* the filter kept
C3_Witness ==
    \E w \in Workers :
        /\ Filtered(w)
        /\ ~Policy(w).AllowJavascriptURL
        /\ \E n \in Elements(inHeap[w], inNodes[w]) :
              /\ CarriesScript(inHeap[w], n)
              /\ \E i \in 1..Len(inHeap[w][n].Attr) : inHeap[w][n].Attr[i].Val[1] = "JavaScript"
        /\ Elements(heap[w], nodes[w]) # {}

\* what the filter made of input node n is output node m: an element off the
\* list became one Text node without children that holds the entity-decoded
\* serialization of n, which renders without any "<"; under an element that
\* was kept the same holds child by child
RECURSIVE Demoted(_, _, _, _, _)
Demoted(cfg, hIn, n, hOut, m) ==
    IF hIn[n].Type = ElementNode /\ hIn[n].DataAtom \notin DOMAIN cfg.elem
    THEN /\ hOut[m].Type = TextNode
         /\ hOut[m].FirstChild = NoNode
         /\ hOut[m].Data = UnescapeString(RenderNode(hIn, n, Len(hIn)).out)
         /\ IndexFrom(RenderNode(hOut, m, Len(hOut)).out, 1, LT) = 0
    ELSE IF hIn[n].Type = ElementNode /\ hOut[m].Type = ElementNode
    THEN LET kin == Children(hIn, n)
             kout == Children(hOut, m)
         IN  /\ Len(kin) = Len(kout)
             /\ \A i \in 1..Len(kin) : Demoted(cfg, hIn, kin[i], hOut, kout[i])
    ELSE TRUE

\* C4: the filter replaces an Element whose tag is not in the policy's element
\* map, with its whole subtree, by exactly one Text node whose content is the
\* entity-decoded serialization of the original markup; the output shows the
\* tag as escaped text.
C4_DisallowedBecomesText ==
    \A w \in Workers :
        Filtered(w) =>
            /\ Len(nodes[w]) = Len(inNodes[w])
            /\ \A i \in 1..Len(nodes[w]) :
                  Demoted(Policy(w), inHeap[w], inNodes[w][i], heap[w], nodes[w][i])

\* C4's case: an element off the list with a descendant that is on the list
C4_Witness ==
    \E w \in Workers :
        /\ Filtered(w)
        /\ \E i \in 1..Len(inNodes[w]) :
              /\ inHeap[w][inNodes[w][i]].Type = ElementNode
              /\ inHeap[w][inNodes[w][i]].DataAtom \notin DOMAIN Policy(w).elem
              /\ \E k \in Subtree(inHeap[w], inNodes[w][i]) :
                    /\ inHeap[w][k].Type = ElementNode
                    /\ inHeap[w][k].DataAtom \in DOMAIN Policy(w).elem
              /\ heap[w][nodes[w][i]].Type = TextNode

\* C5: Clean(p, Clean(p, x)) = Clean(p, x) for every policy p and input x.
C5_Idempotent ==
    \A w \in Workers : pc[w] = "clean2" => out[w] = firstOut[w]

\* the nesting depth of the tree rooted at n: the Elements on its longest path
RECURSIVE Depth(_, _)
Depth(h, n) ==
    IF h[n].Type # ElementNode THEN 0
    ELSE LET kids == Children(h, n)
             below == {Depth(h, kids[i]) : i \in 1..Len(kids)}
         IN  1 + (IF below = {} THEN 0 ELSE CHOOSE d \in below : \A e \in below : e <= d)

\* C6: with depth limit maxDepth = d > 0, no tree in the output of the
\* pipeline has a nesting depth greater than d, also not after a list item or
\* inline content was wrapped.
C6_DepthBound ==
    \A w \in Workers :
        (pc[w] = "parsed" \/ Repaired(w)) /\ maxDepth[w] > 0 =>
            \A i \in 1..Len(nodes[w]) : Depth(heap[w], nodes[w][i]) <= maxDepth[w]

\* C7: after CleanNode returns, every node of the input tree is as it was
\* before the call: type, data, attributes, parent, child and sibling links.
C7_InputUnchanged ==
    \A w \in Workers :
        pc[w] \in {"cleaning", "cleanedEach"} =>
            \A n \in 1..Len(inHeap[w]) : heap[w][n] = inHeap[w][n]

\* C9: Clean and Preprocess, and every other call, return: none panics.
C9_NeverPanics ==
    \A w \in Workers : pc[w] # "panicked"

\* C9's case: Clean returned a text for an input with a URL that does not
\* parse, and the attribute is gone
C9_Witness ==
    \E w \in Workers :
           /\ pc[w] = "clean1"
           /\ IndexFrom(fragment[w], 1, PCT) # 0
           /\ out[w] # <<>>
           /\ IndexFrom(out[w], 1, PCT) = 0

\* the attributes DefaultConfig allows on one element only
DefaultSpecific(e) ==
    CASE e = "a" -> {"href"}
      [] e = "img" -> {"src", "alt"}
      [] e = "video" -> {"src", "poster", "controls"}
      [] e = "audio" -> {"src", "controls"}
      [] e = "details" -> {"open"}
      [] OTHER -> {}

\* C10: under the default policy, the one used for nil, title survives on
\* every allowed element, the other surviving attributes are those of the
\* element (href on a; src and alt on img), anything else is dropped,
\* comments are not escaped and nothing is wrapped.
C10_DefaultPolicy ==
    \A w \in Workers :
        cptr[w] = NilConfig =>
            /\ ~Policy(w).EscapeComments /\ ~Policy(w).WrapText
            /\ (Filtered(w) \/ Repaired(w)) =>
                  /\ \A n \in Elements(heap[w], nodes[w]) :
                        \A i \in 1..Len(heap[w][n].Attr) :
                            \/ heap[w][n].Attr[i].Key = "title"
                            \/ heap[w][n].Attr[i].Key \in DefaultSpecific(heap[w][n].DataAtom)
                  /\ Len(nodes[w]) = Len(inNodes[w])
                  /\ \A i \in 1..Len(nodes[w]) :
                        LET old == inHeap[w][inNodes[w][i]]
                            new == heap[w][nodes[w][i]]
                        IN  /\ old.Type = CommentNode => nodes[w][i] = inNodes[w][i]
                            /\ old.Type = ElementNode /\ new.Type = ElementNode =>
                                  \A k \in 1..Len(old.Attr) :
                                      old.Attr[k].Key = "title" =>
                                          \E j \in 1..Len(new.Attr) : new.Attr[j] = old.Attr[k]

\* C10's case: nil was passed, the element carried title and onclick, and it
\* was kept
C10_Witness ==
    \E w \in Workers :
        /\ cptr[w] = NilConfig
        /\ Filtered(w)
        /\ \E i \in 1..Len(nodes[w]) :
              LET old == inHeap[w][inNodes[w][i]]
              IN  /\ old.Type = ElementNode
                  /\ heap[w][nodes[w][i]].Type = ElementNode
                  /\ {old.Attr[k].Key : k \in 1..Len(old.Attr)} = {"title", "onclick"}
                  /\ Len(heap[w][nodes[w][i]].Attr) = 1

\* CleanNode on each of ns in turn, from the i-th on
RECURSIVE CleanEachAlone(_, _, _, _)
CleanEachAlone(M, c, ns, i) ==
    IF i > Len(ns) THEN [M |-> M, nodes |-> ns]
    ELSE LET r == CleanNode(M, c, ns[i])
         IN  CleanEachAlone(r.M, c, [ns EXCEPT ![i] = r.n], i + 1)

\* what caller w holds is what its calls return when no other call runs and
\* the shared policy is p
SameAsAlone(p, w) ==
    LET M0 == MkMemCfg(<<>>, p, DefaultConfig)
        parsed == ParseDepth(M0, fragment[w], maxDepth[w])
        cleaned == CleanNodes(parsed.M, cptr[w], parsed.nodes)
        each == CleanEachAlone(parsed.M, cptr[w], parsed.nodes, 1)
        first == Clean(M0, cptr[w], fragment[w]).out
    IN  CASE pc[w] = "preprocessed" -> out[w] = Preprocess(M0, cptr[w], fragment[w]).out
          [] pc[w] = "clean1" -> out[w] = first
          [] pc[w] = "clean2" -> out[w] = Clean(M0, cptr[w], first).out
          [] pc[w] = "parsed" -> heap[w] = parsed.M.heap /\ nodes[w] = parsed.nodes
          [] pc[w] = "cleaned" -> heap[w] = cleaned.M.heap /\ nodes[w] = cleaned.nodes
          [] pc[w] = "rendered" -> out[w] = Render(cleaned.M, cleaned.nodes).out
          [] pc[w] = "cleanedEach" -> heap[w] = each.M.heap /\ nodes[w] = each.nodes
          [] pc[w] = "renderedEach" -> out[w] = Render(each.M, each.nodes).out
          [] OTHER -> pc[w] \in {"input", "cleaning"}

\* C8: no call writes to the Config it is given or to DefaultConfig, and with
\* two calls that share one Config and run interleaved on separate inputs,
\* each call returns what it returns when it runs alone.
C8_SharedPolicy ==
    /\ [][config' = config /\ defaultConfig' = defaultConfig]_vars
    /\ \A p \in ConcPolicies : (config = p) => [](\A w \in Workers : SameAsAlone(p, w))

\* C8's case: both callers have their results, of different inputs, under a
\* Config they share, and one of the calls had to wrap a list item
C8_Witness ==
    /\ cptr[1] = UserConfig /\ cptr[2] = UserConfig
    /\ fragment[1] # fragment[2]
    /\ pc[1] = "rendered" /\ pc[2] = "clean1"
    /\ out[1] # out[2]
    /\ fragment[1] = OpenTag("li") \o <<"x">>
    /\ out[1] # <<>>

\* the caller holds the result of sanitizing after its last builder call
Rebuilt(w) == pc[w] = "sanitized" /\ built # <<>>

LastBuilt == built[Len(built)]

\* the start tags of a text, as tokens
TagsOf(str) ==
    LET toks == Tokens(str)
    IN  {toks[i] : i \in {j \in 1..Len(toks) :
                            toks[j].Type \in {StartTagToken, SelfClosingTagToken}}}

\* the text has a live element named e
Live(str, e) == \E t \in TagsOf(str) : t.Name = e

\* the text shows the start tag of e as escaped text
ShownAsText(str, e) ==
    \E i \in 1..(Len(str) - 3) : SubSeq(str, i, i + 3) = <<AMP, "lt", SEMI, e>>

\* the (name, value) pairs on the elements named e of the text
AttrsOn(str, e) ==
    UNION {{<<t.Attr[i].Key, t.Attr[i].Val>> : i \in 1..Len(t.Attr)} :
              t \in {u \in TagsOf(str) : u.Name = e}}

\* the policy allows elements named e
NameAllowed(cfg, e) == Lookup(e) \in DOMAIN cfg.elem \/ e \in DOMAIN cfg.elemCustom

\* the policy allows the attribute name k on every element
NameGlobal(cfg, k) == Lookup(k) \in cfg.attr \/ k \in cfg.attrCustom

\* the patterns the policy holds for attribute k of element e
PatternsFor(cfg, e, k) ==
    (IF Lookup(e) \in DOMAIN cfg.elem /\ Lookup(k) \in DOMAIN cfg.elem[Lookup(e)]
     THEN {cfg.elem[Lookup(e)][Lookup(k)]} ELSE {})
    \cup (IF e \in DOMAIN cfg.elemCustom /\ k \in DOMAIN cfg.elemCustom[e]
          THEN {cfg.elemCustom[e][k]} ELSE {})

\* the value passes every pattern configured for the pair
PatternsAccept(cfg, e, k, v) ==
    \A re \in PatternsFor(cfg, e, k) : re # NoPattern => MatchString(re, v)

\* C11: a builder call takes effect for the next sanitize call, scoped as
\* named.  An element in the input, of a standard or a custom name, that the
\* Config did not allow is shown as escaped text before Elem(name) and is a
\* live element after it, carrying only attributes allowed on every element.
\* ElemAttr(e, a) makes e live and keeps a on e; on another element a is kept
\* only if it was kept there before.  GlobalAttr(a) keeps a on every live
\* element (where a pattern is configured for the pair, if the value passes
\* it) and makes no element live.
C11_BuilderScope ==
    \A w \in Workers :
        Rebuilt(w) =>
            LET b == LastBuilt
                names == {t.Name : t \in TagsOf(fragment[w])}
            IN  /\ b.op = "Elem" /\ b.elem \in names =>
                      /\ Live(out[w], b.elem)
                      /\ ~NameAllowed(b.before, b.elem) =>
                            /\ ~Live(firstOut[w], b.elem)
                            /\ ShownAsText(firstOut[w], b.elem)
                            /\ \A kv \in AttrsOn(out[w], b.elem) : NameGlobal(config, kv[1])
                /\ b.op = "ElemAttr" /\ b.elem \in names =>
                      /\ Live(out[w], b.elem)
                      /\ \A kv \in AttrsOn(fragment[w], b.elem) :
                            kv[1] = b.attr => kv \in AttrsOn(out[w], b.elem)
                      /\ \A e \in names \ {b.elem} :
                            /\ Live(out[w], e) <=> Live(firstOut[w], e)
                            /\ \A kv \in AttrsOn(out[w], e) :
                                  kv[1] = b.attr => kv \in AttrsOn(firstOut[w], e)
                /\ b.op = "GlobalAttr" =>
                      \A e \in names :
                          /\ Live(out[w], e) <=> Live(firstOut[w], e)
                          /\ Live(out[w], e) =>
                                \A kv \in AttrsOn(fragment[w], e) :
                                    kv[1] = b.attr /\ PatternsAccept(config, e, kv[1], kv[2])
                                        => kv \in AttrsOn(out[w], e)

\* C11's case: Elem was called with a custom name the Config did not allow,
\* the element is live now and its title attribute is gone
C11_Witness ==
    \E w \in Workers :
        /\ Rebuilt(w)
        /\ LastBuilt.op = "Elem"
        /\ Lookup(LastBuilt.elem) = ""
        /\ ~NameAllowed(LastBuilt.before, LastBuilt.elem)
        /\ AttrsOn(fragment[w], LastBuilt.elem) # {}
        /\ Live(out[w], LastBuilt.elem)
        /\ AttrsOn(out[w], LastBuilt.elem) = {}

\* the policy lists attribute k for element e, or for every element
AttrListed(cfg, e, k) == NameGlobal(cfg, k) \/ PatternsFor(cfg, e, k) # {}

\* C12: after ElemAttrMatch(e, a, re), attribute a on element e of the input
\* survives if and only if its value matches re; on another element a is
\* kept exactly where it was kept before the call, whatever its value; and
\* on any live element an attribute the Config lists with no pattern for the
\* pair survives with any value.
C12_ValuePattern ==
    \A w \in Workers :
        Rebuilt(w) =>
            LET b == LastBuilt
                names == {t.Name : t \in TagsOf(fragment[w])}
            IN  /\ b.op = "ElemAttrMatch" /\ b.elem \in names =>
                      /\ Live(out[w], b.elem)
                      /\ \A kv \in AttrsOn(fragment[w], b.elem) :
                            kv[1] = b.attr =>
                                (kv \in AttrsOn(out[w], b.elem) <=> MatchString(b.match, kv[2]))
                      /\ \A e \in names \ {b.elem} :
                            \A kv \in AttrsOn(fragment[w], e) :
                                kv[1] = b.attr =>
                                    (kv \in AttrsOn(out[w], e) <=> kv \in AttrsOn(firstOut[w], e))
                /\ \A e \in names :
                      Live(out[w], e) =>
                          \A kv \in AttrsOn(fragment[w], e) :
                              /\ AttrListed(config, e, kv[1])
                              /\ PatternsFor(config, e, kv[1]) \subseteq {NoPattern}
                              => kv \in AttrsOn(out[w], e)

\* C12's case: the pattern was set for title on one of two elements that both
\* carry title="Hello"; the value does not match and is gone from that
\* element, and stays on the other
C12_Witness ==
    \E w \in Workers, e \in BuildElems :
        /\ Rebuilt(w)
        /\ LastBuilt.op = "ElemAttrMatch"
        /\ e # LastBuilt.elem
        /\ <<LastBuilt.attr, <<"Hello">>>> \in AttrsOn(fragment[w], LastBuilt.elem)
        /\ <<LastBuilt.attr, <<"Hello">>>> \in AttrsOn(fragment[w], e)
        /\ Live(out[w], LastBuilt.elem)
        /\ <<LastBuilt.attr, <<"Hello">>>> \notin AttrsOn(out[w], LastBuilt.elem)
        /\ <<LastBuilt.attr, <<"Hello">>>> \in AttrsOn(out[w], e)

\* the schemes a URL attribute may carry
AcceptedSchemes == {<<"http">>, <<"https">>, <<"mailto">>, <<"data">>, <<>>}

\* the value v of a URL attribute is acceptable under cfg: it parses, its
\* scheme is accepted and the predicate of cfg, if any, accepts it
URLAccepted(cfg, v) ==
    LET u == ParseURL(v)
    IN  /\ ~u.err
        /\ u.Scheme \in AcceptedSchemes
        /\ (cfg.ValidateURL # "nil" => CallValidateURL(cfg.ValidateURL, u))

\* attribute at of element old is on the list of cfg and passes its pattern
OtherwiseAllowed(cfg, old, at) ==
    /\ at.Namespace = ""
    /\ \/ Lookup(at.Key) \in DOMAIN cfg.elem[old.DataAtom]
       \/ Lookup(at.Key) \in cfg.attr
    /\ PatternsAccept(cfg, old.Data[1], at.Key, at.Val)

\* what is to survive of attribute list ats of element old, in order: the URL
\* attributes that are acceptable, in canonical form, and the others as they are
RECURSIVE SurvivingAttrs(_, _, _)
SurvivingAttrs(cfg, old, ats) ==
    IF ats = <<>> THEN <<>>
    ELSE LET at == Head(ats)
             rest == SurvivingAttrs(cfg, old, Tail(ats))
         IN  IF ~OtherwiseAllowed(cfg, old, at) THEN rest
             ELSE IF Lookup(at.Key) \notin URLAttrs THEN <<at>> \o rest
             ELSE IF URLAccepted(cfg, at.Val)
             THEN <<[at EXCEPT !.Val = URLString(ParseURL(at.Val))]>> \o rest
             ELSE rest

\* C13: with AllowJavascriptURL unset, on an element the filter keeps, an
\* allowed href, src or poster survives if and only if its value parses as a
\* URL, the scheme is http, https, mailto, data or empty and the predicate of
\* the Config, if any, accepts it, and it survives with the canonical string
\* of the URL as its value; an allowed attribute of another name survives as
\* it is.
C13_URLCheck ==
    \A w \in Workers :
        Filtered(w) /\ ~Policy(w).AllowJavascriptURL =>
            \A i \in 1..Len(nodes[w]) :
                LET old == inHeap[w][inNodes[w][i]]
                    new == heap[w][nodes[w][i]]
                IN  old.Type = ElementNode /\ new.Type = ElementNode =>
                        new.Attr = SurvivingAttrs(Policy(w), old, old.Attr)

\* C13's case: of two href attributes of a link, the one with the scheme
\* javascript is gone and the one written HTTP://h/a b is there as
\* http://h/a%20b
C13_Witness ==
    \E w \in Workers :
        /\ Filtered(w) /\ ~Policy(w).AllowJavascriptURL
        /\ \E i \in 1..Len(nodes[w]) :
              LET old == inHeap[w][inNodes[w][i]]
                  new == heap[w][nodes[w][i]]
              IN  /\ old.Type = ElementNode /\ new.Type = ElementNode
                  /\ Len(old.Attr) = 2
                  /\ \E k \in 1..2 : JavascriptScheme(old.Attr[k].Val)
                  /\ \E k \in 1..2 : old.Attr[k].Val[1] = "HTTP"
                  /\ Len(new.Attr) = 1
                  /\ new.Attr[1].Key = "href"
                  /\ new.Attr[1].Val = <<"http", COLON, SL, SL, "h", SL, "a", "%20", "b">>

\* the caller holds what Preprocess returned
Preprocessed(w) == pc[w] = "preprocessed"

TagTokens == {StartTagToken, EndTagToken, SelfClosingTagToken}

\* the source bytes of the tokens, one after the other
RECURSIVE RawOf(_)
RawOf(toks) == IF toks = <<>> THEN <<>> ELSE Head(toks).Raw \o RawOf(Tail(toks))

\* the token is a comment written with its delimiters
TrueComment(tok) ==
    /\ tok.Type = CommentToken
    /\ HasPrefix(tok.Raw, <<LT, BANGDASH>>)
    /\ HasSuffix(tok.Raw, <<DASHDASH, GT>>)

\* str is what is to be written for the tokens: text as it was read, a tag as
\* it was read if its name is allowed and escaped if not, a comment either
\* way, any other markup escaped
RECURSIVE EmittedAs(_, _, _)
EmittedAs(cfg, toks, str) ==
    IF toks = <<>> THEN str = <<>>
    ELSE LET tok == Head(toks)
             raw == tok.Raw
             esc == EscapeString(tok.Raw)
             forms == IF tok.Type = TextToken THEN {raw}
                      ELSE IF tok.Type \in TagTokens
                      THEN IF NameAllowed(cfg, tok.Name) THEN {raw} ELSE {esc}
                      ELSE IF TrueComment(tok) THEN {raw, esc}
                      ELSE {esc}
         IN  \E f \in forms :
                 /\ HasPrefix(str, f)
                 /\ EmittedAs(cfg, Tail(toks), SubSeq(str, Len(f) + 1, Len(str)))

\* C14: Preprocess writes the tokens of its input in their order, each once:
\* a start, end or self-closing tag whose name the policy does not allow as
\* its source bytes with the HTML entities escaped, a tag whose name is
\* allowed as it was read, attributes included, text as it was read (a bare
\* ">" or a trailing "<" is not escaped), and a doctype or other markup that
\* is not a comment always escaped.
C14_PreprocessTokens ==
    \A w \in Workers :
        Preprocessed(w) =>
            /\ RawOf(Tokens(fragment[w])) = fragment[w]
            /\ EmittedAs(Policy(w), Tokens(fragment[w]), out[w])

\* C14's case: a self-closing tag that is not allowed came before one that
\* is: the first is written escaped, the second as it was read
C14_Witness ==
    \E w \in Workers :
        /\ Preprocessed(w)
        /\ fragment[w] = <<LT, "br", SL, GT, LT, "b", SL, GT>>
        /\ out[w] = <<AMP, "lt", SEMI, "br", SL, AMP, "gt", SEMI, LT, "b", SL, GT>>

\* the text of the tree rooted at n
TextOf(h, n) == RenderNode(h, n, Len(h)).out

\* the nodes of the input of caller w, each filtered on its own: [M, nodes]
FilteredAlone(w) ==
    CleanEachAlone(MkMemCfg(inHeap[w], config, defaultConfig), cptr[w], inNodes[w], 1)

\* node n of h is a ul made for the list item that reads li: it is not a node
\* of the input, has no attributes, parent or siblings, and the list item is
\* its only child
FreshListAround(w, h, n, li) ==
    /\ n > Len(inHeap[w])
    /\ h[n].Type = ElementNode /\ h[n].Data = <<"ul">> /\ h[n].DataAtom = "ul"
    /\ h[n].Attr = <<>>
    /\ h[n].Parent = NoNode /\ h[n].PrevSibling = NoNode /\ h[n].NextSibling = NoNode
    /\ Len(Children(h, n)) = 1
    /\ h[Children(h, n)[1]].DataAtom = "li"
    /\ h[Children(h, n)[1]].Parent = n
    /\ TextOf(h, Children(h, n)[1]) = li

\* C15: CleanNodes returns, for every top-level node that after filtering is
\* an li element, at the same index a new ul element whose only child is that
\* list item; every other top-level node is what the filter made of it, so
\* that a list item below the top level, or one turned into text, has no ul
\* around it; number and order of the nodes are as in the input.  (Stated
\* for a policy without WrapText, under which the second pass does nothing.)
C15_ListItemWrapped ==
    \A w \in Workers :
        Repaired(w) /\ ~Policy(w).WrapText =>
            LET f == FilteredAlone(w)
            IN  /\ Len(nodes[w]) = Len(inNodes[w])
                /\ \A i \in 1..Len(nodes[w]) :
                      IF f.M.heap[f.nodes[i]].Type = ElementNode
                         /\ f.M.heap[f.nodes[i]].DataAtom = "li"
                      THEN /\ FreshListAround(w, heap[w], nodes[w][i],
                                              TextOf(f.M.heap, f.nodes[i]))
                           /\ \A j \in 1..Len(nodes[w]) : j # i => nodes[w][j] # nodes[w][i]
                      ELSE TextOf(heap[w], nodes[w][i]) = TextOf(f.M.heap, f.nodes[i])

\* C15's case: two list items at the top, the first holding an allowed b:
\* each is in a ul of its own, in the order of the input
C15_Witness ==
    \E w \in Workers :
        /\ Repaired(w) /\ ~Policy(w).WrapText
        /\ Len(nodes[w]) = 2
        /\ inHeap[w][inNodes[w][1]].DataAtom = "li"
        /\ inHeap[w][inNodes[w][2]].DataAtom = "li"
        /\ heap[w][nodes[w][1]].DataAtom = "ul"
        /\ heap[w][nodes[w][2]].DataAtom = "ul"
        /\ nodes[w][1] # nodes[w][2]
        /\ \E k \in Subtree(heap[w], nodes[w][1]) : heap[w][k].DataAtom = "b"

\* the top-level nodes of caller w after the first pass of CleanNodes, the
\* filter and the wrapping of list items: [M, nodes]
FirstPass(w) ==
    filterTop(MkMemCfg(inHeap[w], config, defaultConfig), OrDefault(cptr[w]), inNodes[w], <<>>)

\* the pass over the sequence ns as a buffer machine: the segments, in order,
\* each a block-level element, a whitespace-only text met with no buffer
\* open, or the run of nodes that one buffer collected; run is the open buffer
RECURSIVE Segments(_, _, _)
Segments(h, ns, run) ==
    LET flush == IF run = <<>> THEN <<>> ELSE <<[kind |-> "run", nodes |-> run]>>
    IN  IF ns = <<>> THEN flush
        ELSE LET n == Head(ns)
             IN  IF h[n].Type = ElementNode /\ h[n].DataAtom \in isBlockElement
                 THEN flush \o <<[kind |-> "block", nodes |-> <<n>>]>>
                            \o Segments(h, Tail(ns), <<>>)
                 ELSE IF run = <<>> /\ h[n].Type = TextNode /\ TrimSpace(h[n].Data) = <<>>
                 THEN <<[kind |-> "space", nodes |-> <<n>>]>> \o Segments(h, Tail(ns), <<>>)
                 ELSE Segments(h, Tail(ns), Append(run, n))

\* the text of a paragraph that holds the nodes of a run
ParagraphOf(h, run) ==
    OpenTag("p") \o Flatten([i \in 1..Len(run) |-> TextOf(h, run[i])]) \o CloseTag("p")

\* what the parser makes of a text: the text of each top-level node
ParsedTexts(str) ==
    LET r == ParseDepth(MkMemCfg(<<>>, ZeroConfig, DefaultConfig), str, 0)
    IN  [i \in 1..Len(r.nodes) |-> TextOf(r.M.heap, r.nodes[i])]

\* what is to stand at the top for the segments: [text, node], node being
\* the node that is to stay, or NoNode
RECURSIVE Flushed(_, _, _)
Flushed(h, segs, whole) ==
    IF segs = <<>> THEN <<>>
    ELSE LET g == Head(segs)
             texts == IF whole THEN <<ParagraphOf(h, g.nodes)>>
                      ELSE ParsedTexts(ParagraphOf(h, g.nodes))
         IN  (IF g.kind = "run"
              THEN [i \in 1..Len(texts) |-> [text |-> texts[i], node |-> NoNode]]
              ELSE <<[text |-> TextOf(h, g.nodes[1]), node |-> g.nodes[1]]>>)
             \o Flushed(h, Tail(segs), whole)

\* the nodes caller w holds are those of the list want
StandsAsFlushed(w, h, want) ==
    /\ Len(nodes[w]) = Len(want)
    /\ \A i \in 1..Len(want) :
          /\ TextOf(heap[w], nodes[w][i]) = want[i].text
          /\ want[i].node # NoNode =>
                nodes[w][i] = want[i].node /\ heap[w][want[i].node] = h[want[i].node]

\* a run holds a block-level element somewhere below the top
HoldsBlock(h, run) ==
    \E n \in Trees(h, run) : h[n].Type = ElementNode /\ h[n].DataAtom \in isBlockElement

MarkedNames ==
    IF LastBuilt.op = "WrapTextInside"
    THEN {LastBuilt.elem[i] : i \in 1..Len(LastBuilt.elem)}
         \cup LastBuilt.before.wrap \cup LastBuilt.before.wrapCustom
    ELSE config.wrap \cup config.wrapCustom

\* the element ends an open paragraph at its level: it is block-level, a
\* wrap root, or of a custom name
Boundary(node) ==
    /\ node.Type = ElementNode
    /\ \/ node.DataAtom \in isBlockElement
       \/ node.Data[1] \in MarkedNames
       \/ node.DataAtom = ""

\* the filtered nodes of the input of caller w before any wrapping: [h, nodes]
Unwrapped(w) ==
    LET M0 == MkMemCfg(<<>>, [config EXCEPT !.WrapText = FALSE], defaultConfig)
        pre == Preprocess(M0, cptr[w], fragment[w])
        p == Parse(pre.M, pre.out)
        q == CleanNodes(p.M, cptr[w], p.nodes)
    IN  [h |-> q.M.heap, nodes |-> q.nodes]

\* the text that is to stand for node n, and for the sequence ns wrapped as
\* top-level nodes are, run being the texts in the open paragraph: the
\* children of a wrap root are wrapped, those of any other element are not
RECURSIVE InsideText(_, _)
RECURSIVE WrappedText(_, _, _)
InsideText(h, n) ==
    IF h[n].Type # ElementNode THEN TextOf(h, n)
    ELSE LET kids == Children(h, n)
         IN  OpenTag(h[n].Data[1])
             \o (IF h[n].Data[1] \in MarkedNames THEN WrappedText(h, kids, <<>>)
                 ELSE Flatten([i \in 1..Len(kids) |-> InsideText(h, kids[i])]))
             \o CloseTag(h[n].Data[1])

WrappedText(h, ns, run) ==
    LET flush == IF run = <<>> THEN <<>>
                 ELSE Flatten(ParsedTexts(OpenTag("p") \o Flatten(run) \o CloseTag("p")))
    IN  IF ns = <<>> THEN flush
        ELSE LET n == Head(ns)
             IN  IF Boundary(h[n])
                 THEN flush \o InsideText(h, n) \o WrappedText(h, Tail(ns), <<>>)
                 ELSE IF run = <<>> /\ h[n].Type = TextNode /\ TrimSpace(h[n].Data) = <<>>
                 THEN InsideText(h, n) \o WrappedText(h, Tail(ns), <<>>)
                 ELSE WrappedText(h, Tail(ns), Append(run, InsideText(h, n)))

\* C17: with WrapText set, after WrapTextInside has named an element, the
\* children of every allowed element of that name are wrapped in paragraphs
\* as a top-level sequence is, inside the element; the children of an
\* element not so named are left as they are; and the named element ends the
\* open paragraph at its own level, as a block-level element does (as does
\* an element of a custom name, named or not).
C17_WrapInside ==
    \A w \in Workers :
        Rebuilt(w) /\ config.WrapText =>
            out[w] = WrappedText(Unwrapped(w).h, Unwrapped(w).nodes, <<>>)

\* C17's case: a blockquote and an element of a custom name, each with text
\* inside; only blockquote was named, and only its text is in a paragraph
C17_Witness ==
    \E w \in Workers :
        /\ Rebuilt(w) /\ config.WrapText
        /\ LastBuilt.op = "WrapTextInside" /\ LastBuilt.elem = <<"blockquote">>
        /\ fragment[w] = Around("blockquote", <<"b">>) \o Around("custom-element", <<"d">>)
        /\ firstOut[w] = fragment[w]
        /\ out[w] = Around("blockquote", Around("p", <<"b">>))
                        \o Around("custom-element", <<"d">>)

\* the attributes of ats that are on the list of cfg for element old and pass
\* its pattern, in order, as they are written
RECURSIVE KeptAsWritten(_, _, _)
KeptAsWritten(cfg, old, ats) ==
    IF ats = <<>> THEN <<>>
    ELSE (IF OtherwiseAllowed(cfg, old, Head(ats)) THEN <<Head(ats)>> ELSE <<>>)
         \o KeptAsWritten(cfg, old, Tail(ats))

\* the value of a URL attribute that the URL check turns down or rewrites
Unacceptable(cfg, v) == ~URLAccepted(cfg, v) \/ URLString(ParseURL(v)) # v

\* C18: with AllowJavascriptURL set the URL check is skipped as a whole: on
\* an element the filter keeps, no href, src or poster is dropped because it
\* does not parse, for its scheme or by the predicate, and no value is
\* rewritten; the attributes that survive are those the allow-list names and
\* the pattern of the pair, if any, accepts.
C18_ScriptURLAllowed ==
    \A w \in Workers :
        Filtered(w) /\ Policy(w).AllowJavascriptURL =>
            \A i \in 1..Len(nodes[w]) :
                LET old == inHeap[w][inNodes[w][i]]
                    new == heap[w][nodes[w][i]]
                IN  old.Type = ElementNode /\ new.Type = ElementNode =>
                        new.Attr = KeptAsWritten(Policy(w), old, old.Attr)

\* C18's case: a link with two href attributes, one with the scheme
\* javascript and one that does not parse, under a Config with a predicate
\* that accepts neither: both are there as written
C18_Witness ==
    \E w \in Workers :
        /\ Filtered(w) /\ Policy(w).AllowJavascriptURL
        /\ Policy(w).ValidateURL # "nil"
        /\ \E i \in 1..Len(nodes[w]) :
              LET old == inHeap[w][inNodes[w][i]]
                  new == heap[w][nodes[w][i]]
              IN  /\ old.Type = ElementNode /\ new.Type = ElementNode
                  /\ Len(old.Attr) = 2
                  /\ \A k \in 1..2 :
                        /\ Lookup(old.Attr[k].Key) \in URLAttrs
                        /\ Unacceptable(Policy(w), old.Attr[k].Val)
                  /\ \E k \in 1..2 : JavascriptScheme(old.Attr[k].Val)
                  /\ \E k \in 1..2 : ParseURL(old.Attr[k].Val).err
                  /\ new.Attr = old.Attr

\* C19: the filter rejects foreign content: every node with a non-empty
\* namespace (svg, math) is replaced by a Text node that holds its serialized
\* form, also when its tag is on the allow-list, so that no element of the
\* output has a namespace; and every attribute with a namespace is dropped.
C19_ForeignRejected ==
    \A w \in Workers :
        Filtered(w) =>
            /\ \A i \in 1..Len(nodes[w]) :
                  LET old == inHeap[w][inNodes[w][i]]
                      new == heap[w][nodes[w][i]]
                  IN  old.Type = ElementNode /\ old.Namespace # "" =>
                          /\ new.Type = TextNode
                          /\ new.Data \in {TextOf(inHeap[w], inNodes[w][i]),
                                           UnescapeString(TextOf(inHeap[w], inNodes[w][i]))}
            /\ \A n \in Elements(heap[w], nodes[w]) :
                  /\ heap[w][n].Namespace = ""
                  /\ \A k \in 1..Len(heap[w][n].Attr) : heap[w][n].Attr[k].Namespace = ""

\* the filter returned input node n itself, with the type and data it had
ReturnedAsIs(hIn, n, hOut, m) ==
    m = n /\ hOut[m].Type = hIn[n].Type /\ hOut[m].Data = hIn[n].Data

\* the filter returned a new Text node without children that holds the
\* serialized form of input node n
ReplacedByText(hIn, n, hOut, m) ==
    /\ m # n
    /\ hOut[m].Type = TextNode
    /\ hOut[m].FirstChild = NoNode
    /\ hOut[m].Data = RenderNode(hIn, n, Len(hIn)).out

\* what the filter made of input node n is output node m, decided by the type
\* of n; under an element that was kept, and whose children no wrap pass has
\* moved, the same holds child by child
RECURSIVE ByType(_, _, _, _, _)
ByType(cfg, hIn, n, hOut, m) ==
    CASE hIn[n].Type = TextNode -> ReturnedAsIs(hIn, n, hOut, m)
      [] hIn[n].Type = CommentNode ->
            IF cfg.EscapeComments THEN ReplacedByText(hIn, n, hOut, m)
            ELSE ReturnedAsIs(hIn, n, hOut, m)
      [] hIn[n].Type = DoctypeNode -> ReplacedByText(hIn, n, hOut, m)
      [] OTHER ->
            hOut[m].Type = ElementNode /\ ~cfg.WrapText =>
                LET kin == Children(hIn, n)
                    kout == Children(hOut, m)
                IN  /\ Len(kin) = Len(kout)
                    /\ \A i \in 1..Len(kin) : ByType(cfg, hIn, kin[i], hOut, kout[i])

\* C20: for a node that is not an element the filter decides by the type of
\* the node alone: a Text node is returned unchanged; a Comment node is
\* returned unchanged when EscapeComments is off and is replaced by a Text node
\* that holds its serialized form when EscapeComments is on; a Doctype node is
\* replaced by a Text node that holds its serialized form under every policy.
C20_NonElementByType ==
    \A w \in Workers :
        Filtered(w) =>
            /\ Len(nodes[w]) = Len(inNodes[w])
            /\ \A i \in 1..Len(nodes[w]) :
                  ByType(Policy(w), inHeap[w], inNodes[w][i], heap[w], nodes[w][i])

\* C20's case: under a policy that escapes comments the caller passed a
\* Doctype node and a Comment node, and holds two Text nodes with their markup
C20_Witness ==
    \E w \in Workers :
        /\ Filtered(w)
        /\ Policy(w).EscapeComments
        /\ Len(inNodes[w]) = 2
        /\ inHeap[w][inNodes[w][1]].Type = DoctypeNode
        /\ inHeap[w][inNodes[w][2]].Type = CommentNode
        /\ heap[w][nodes[w][1]].Type = TextNode
        /\ heap[w][nodes[w][1]].Data = <<LT, BANGDOCTYPE, SP, "html", GT>>
        /\ heap[w][nodes[w][2]].Type = TextNode
        /\ heap[w][nodes[w][2]].Data = <<LT, BANGDASH, "c", DASHDASH, GT>>

\* attribute list ats of element old holds a src that is to survive under cfg:
\* it is on the list, passes its pattern and, unless cfg lets script URLs
\* pass, is an acceptable URL
SrcSurvives(cfg, old) ==
    \E k \in 1..Len(old.Attr) :
        /\ Lookup(old.Attr[k].Key) = "src"
        /\ OtherwiseAllowed(cfg, old, old.Attr[k])
        /\ cfg.AllowJavascriptURL \/ URLAccepted(cfg, old.Attr[k].Val)

HasSrc(node) == \E k \in 1..Len(node.Attr) : node.Attr[k].Key = "src"

\* C21: an img on the allow-list of which no src attribute survives the
\* attribute filter (there is none, it is not allowed, the URL check or a
\* pattern rejects it) is replaced as a whole by a new, empty Text node without
\* children; an img with a surviving src is kept, with that src.
C21_ImgWithoutSrc ==
    \A w \in Workers :
        Filtered(w) =>
            /\ \A i \in 1..Len(nodes[w]) :
                  LET old == inHeap[w][inNodes[w][i]]
                      new == heap[w][nodes[w][i]]
                  IN  /\ old.Type = ElementNode
                      /\ old.Namespace = ""
                      /\ old.DataAtom = "img"
                      /\ "img" \in DOMAIN Policy(w).elem
                      => IF SrcSurvives(Policy(w), old)
                         THEN /\ new.Type = ElementNode
                              /\ new.Data = old.Data
                              /\ HasSrc(new)
                         ELSE /\ nodes[w][i] # inNodes[w][i]
                              /\ new.Type = TextNode
                              /\ new.Data = <<>>
                              /\ new.FirstChild = NoNode
            /\ \A n \in Elements(heap[w], nodes[w]) :
                  heap[w][n].DataAtom = "img" => HasSrc(heap[w][n])

\* C21's case: an img whose only src a pattern rejects, and that has an
\* allowed alt, became an empty Text node
C21_Witness ==
    \E w \in Workers :
        /\ Filtered(w)
        /\ Len(inNodes[w]) = 1
        /\ inHeap[w][inNodes[w][1]].DataAtom = "img"
        /\ "img" \in DOMAIN Policy(w).elem
        /\ "src" \in DOMAIN Policy(w).elem["img"]
        /\ Policy(w).elem["img"]["src"] = "^fa-spin$"
        /\ \E k \in 1..Len(inHeap[w][inNodes[w][1]].Attr) :
              /\ inHeap[w][inNodes[w][1]].Attr[k].Key = "src"
              /\ inHeap[w][inNodes[w][1]].Attr[k].Val = <<"y">>
        /\ \E k \in 1..Len(inHeap[w][inNodes[w][1]].Attr) :
              inHeap[w][inNodes[w][1]].Attr[k].Key = "alt"
        /\ heap[w][nodes[w][1]].Type = TextNode
        /\ heap[w][nodes[w][1]].Data = <<>>

\* node n of h is the placeholder under parent p: a Text node "[omitted]"
\* without attributes, children or following siblings
Placeholder(h, n, p) ==
    /\ h[n].Type = TextNode
    /\ h[n].Data = <<"[omitted]">>
    /\ h[n].Attr = <<>>
    /\ h[n].FirstChild = NoNode /\ h[n].LastChild = NoNode
    /\ h[n].NextSibling = NoNode
    /\ h[n].Parent = p
    /\ h[p].FirstChild = n /\ h[p].LastChild = n

\* h is what the limit makes of the tree rooted at n in hF, when d > 0 levels
\* remain at n: n is as it was; its children are as they were and limited in
\* turn while levels remain, and are cut down to one placeholder, made of the
\* first of them, when none remains
RECURSIVE Limited(_, _, _, _)
Limited(hF, h, n, d) ==
    /\ h[n].Type = hF[n].Type /\ h[n].Data = hF[n].Data /\ h[n].Attr = hF[n].Attr
    /\ h[n].Parent = hF[n].Parent
    /\ IF hF[n].Type # ElementNode THEN h[n] = hF[n]
       ELSE LET kin == Children(hF, n)
                kout == Children(h, n)
            IN  IF d = 1
                THEN IF kin = <<>> THEN kout = <<>> /\ h[n] = hF[n]
                     ELSE kout = <<kin[1]>> /\ Placeholder(h, kin[1], n)
                ELSE /\ kout = kin
                     /\ h[n] = hF[n]
                     /\ \A k \in 1..Len(kin) : Limited(hF, h, kin[k], d - 1)

\* C22: ParseDepth with maxDepth > 0 leaves every node above the limit as the
\* parser made it and turns the first node at the limit under each parent, of
\* whatever type, into a Text node "[omitted]" without children and attributes,
\* and removes the siblings that follow it, so that the parent has the
\* placeholder as its only child; with maxDepth = 0 the tree is as the parser
\* made it; Parse uses the limit 100.
C22_LimitDepth ==
    /\ DefaultMaxDepth = 100
    /\ \A w \in Workers :
          pc[w] = "parsed" =>
              LET full == ParseFragment(MkMem(<<>>), fragment[w])
              IN  /\ nodes[w] = full.nodes
                  /\ IF maxDepth[w] = 0 THEN heap[w] = full.M.heap
                     ELSE \A i \in 1..Len(nodes[w]) :
                             Limited(full.M.heap, heap[w], nodes[w][i], maxDepth[w])

\* C22's case: with limit 1, of an element that held a comment, an element and
\* more, the placeholder alone is left
C22_Witness ==
    \E w \in Workers :
        /\ pc[w] = "parsed"
        /\ maxDepth[w] = 1
        /\ fragment[w] = OpenTag("b") \o <<LT, BANGDASH, "c", DASHDASH, GT>> \o Around("em", <<"y">>)
        /\ Len(nodes[w]) = 1
        /\ heap[w][nodes[w][1]].Data = <<"b">>
        /\ Len(Children(heap[w], nodes[w][1])) = 1
        /\ heap[w][heap[w][nodes[w][1]].FirstChild].Data = <<"[omitted]">>

\* str is what is to be written for the tokens when a comment token is
\* written as it was read if cfg does not escape comments and the token is
\* written with both delimiters, and escaped in every other case; the other
\* tokens are written either way
RECURSIVE CommentsEmittedAs(_, _, _)
CommentsEmittedAs(cfg, toks, str) ==
    IF toks = <<>> THEN str = <<>>
    ELSE LET tok == Head(toks)
             forms == IF tok.Type # CommentToken THEN {tok.Raw, EscapeString(tok.Raw)}
                      ELSE IF ~cfg.EscapeComments /\ TrueComment(tok) THEN {tok.Raw}
                      ELSE {EscapeString(tok.Raw)}
         IN  \E f \in forms :
                 /\ HasPrefix(str, f)
                 /\ CommentsEmittedAs(cfg, Tail(toks), SubSeq(str, Len(f) + 1, Len(str)))

\* C23: Preprocess writes a comment token as it was read only when
\* EscapeComments is off and the source of the token starts with "<!--" and
\* ends with "-->"; with EscapeComments on, and for a bogus comment (a CDATA
\* section, an XML declaration, a processing instruction) or a comment that
\* the end of the input cuts, it writes the source with the entities escaped.
C23_CommentTokens ==
    \A w \in Workers :
        Preprocessed(w) => CommentsEmittedAs(Policy(w), Tokens(fragment[w]), out[w])

\* C23's case: with EscapeComments off, a comment is written as it was read
\* and the CDATA section after it escaped
C23_Witness ==
    \E w \in Workers :
        /\ Preprocessed(w)
        /\ ~Policy(w).EscapeComments
        /\ fragment[w] = <<LT, BANGDASH, "c", DASHDASH, GT, LT, BANG, "[CDATA[x]]", GT>>
        /\ out[w] = <<LT, BANGDASH, "c", DASHDASH, GT,
                      AMP, "lt", SEMI, BANG, "[CDATA[x]]", AMP, "gt", SEMI>>

\* str holds the source of every token, in order, as it was read or escaped
RECURSIVE Represented(_, _)
Represented(toks, str) ==
    IF toks = <<>> THEN str = <<>>
    ELSE \E f \in {Head(toks).Raw, EscapeString(Head(toks).Raw)} :
             /\ HasPrefix(str, f)
             /\ Represented(Tail(toks), SubSeq(str, Len(f) + 1, Len(str)))

\* the token the tokenizer reports at the end of the input: its source is what
\* is left of a tag that the end of the input cuts, and empty otherwise
LastToken(s) == Tokens(s)[Len(Tokens(s))]

\* C24: Preprocess reads up to the end of the input and returns, and drops no
\* byte of it: the tokens make up the input, each is in the output as it was
\* read or escaped, and what is left of a tag that the end of the input cuts
\* (as in "<bar") is written escaped at the end of the output.
C24_NoByteDropped ==
    \A w \in Workers :
        Preprocessed(w) =>
            /\ LastToken(fragment[w]).Type = ErrorToken
            /\ RawOf(Tokens(fragment[w])) = fragment[w]
            /\ Represented(Tokens(fragment[w]), out[w])
            /\ HasSuffix(out[w], EscapeString(LastToken(fragment[w]).Raw))

\* C24's case: the input ends inside a tag, and the cut tag is in the output
\* as escaped text
C24_Witness ==
    \E w \in Workers :
        /\ Preprocessed(w)
        /\ fragment[w] = <<"foo", LT, "bar">>
        /\ LastToken(fragment[w]).Raw = <<LT, "bar">>
        /\ out[w] = <<"foo", AMP, "lt", SEMI, "bar">>

\* the links of element m of h and of its children describe one sequence of
\* children: first and last child, previous and next sibling, parent
LinksConsistent(h, m) ==
    LET ks == Children(h, m)
    IN  IF h[m].FirstChild = NoNode THEN h[m].LastChild = NoNode
        ELSE /\ h[m].FirstChild = ks[1]
             /\ h[m].LastChild = ks[Len(ks)]
             /\ \A k \in 1..Len(ks) :
                   /\ h[ks[k]].Parent = m
                   /\ h[ks[k]].PrevSibling = (IF k = 1 THEN NoNode ELSE ks[k - 1])
                   /\ h[ks[k]].NextSibling = (IF k = Len(ks) THEN NoNode ELSE ks[k + 1])
             /\ \A j, k \in 1..Len(ks) : ks[j] = ks[k] => j = k

\* what the attribute filter leaves of the attribute list ats of element old
AttrsKept(cfg, old, ats) == cleanAttrs(cfg, old, ats, [attrs |-> <<>>, haveSrc |-> FALSE]).attrs

\* new holds, in the order of old, what the filter leaves of each attribute of
\* old taken alone, and that is nothing or one attribute of the same name
AttrsMirror(cfg, old, new) ==
    /\ new.Attr = Flatten([i \in 1..Len(old.Attr) |-> AttrsKept(cfg, old, <<old.Attr[i]>>)])
    /\ \A i \in 1..Len(old.Attr) :
          LET one == AttrsKept(cfg, old, <<old.Attr[i]>>)
          IN  one = <<>> \/ (Len(one) = 1 /\ one[1].Key = old.Attr[i].Key)

\* output node m is of the type, and reads, as what the filter returns for
\* input node n of caller w taken alone
FilterResult(w, n, hOut, m) ==
    LET r == CleanNode(MkMemCfg(inHeap[w], config, defaultConfig), cptr[w], n)
    IN  /\ hOut[m].Type = r.M.heap[r.n].Type
        /\ TextOf(hOut, m) = TextOf(r.M.heap, r.n)

\* element m of the output is the kept element n of the input: the same tag,
\* the attributes that pass in their order, one child for each child of n in
\* the order of n, each the result of the filter and, where it is a kept
\* element, mirrored in turn, and consistent links
RECURSIVE Mirrors(_, _, _, _)
Mirrors(w, n, hOut, m) ==
    LET hIn == inHeap[w]
        kin == Children(hIn, n)
        kout == Children(hOut, m)
    IN  /\ hOut[m].Data = hIn[n].Data
        /\ hOut[m].DataAtom = hIn[n].DataAtom
        /\ hOut[m].Namespace = hIn[n].Namespace
        /\ AttrsMirror(Policy(w), hIn[n], hOut[m])
        /\ LinksConsistent(hOut, m)
        /\ Len(kout) = Len(kin)
        /\ \A k \in 1..Len(kin) :
              /\ FilterResult(w, kin[k], hOut, kout[k])
              /\ hIn[kin[k]].Type = ElementNode /\ hOut[kout[k]].Type = ElementNode
                     => Mirrors(w, kin[k], hOut, kout[k])

\* C25: an element the filter keeps mirrors the element of the input: the tag
\* is the same; it has one child for each child of the input, in the order of
\* the input, each what the filter returns for that child; its attributes are
\* those of the input that pass, in the order of the input, each attribute
\* decided on its own, also one of several of the same name; and first and
\* last child, previous and next sibling and parent describe that one sequence
\* of children.
C25_KeptMirrorsInput ==
    \A w \in Workers :
        Filtered(w) =>
            \A i \in 1..Len(nodes[w]) :
                /\ inHeap[w][inNodes[w][i]].Type = ElementNode
                /\ heap[w][nodes[w][i]].Type = ElementNode
                => Mirrors(w, inNodes[w][i], heap[w], nodes[w][i])

\* C25's case: a kept element with two children, a text and an element
\* that it kept: the copy has the text itself and a copy of the element, in
\* that order
C25_Witness ==
    \E w \in Workers :
        /\ Filtered(w)
        /\ Len(inNodes[w]) = 1
        /\ inHeap[w][inNodes[w][1]].Type = ElementNode
        /\ heap[w][nodes[w][1]].Type = ElementNode
        /\ nodes[w][1] # inNodes[w][1]
        /\ LET kin == Children(inHeap[w], inNodes[w][1])
               kout == Children(heap[w], nodes[w][1])
           IN  /\ Len(kin) = 2 /\ Len(kout) = 2
               /\ inHeap[w][kin[1]].Type = TextNode
               /\ kout[1] = kin[1]
               /\ inHeap[w][kin[2]].Type = ElementNode
               /\ heap[w][kout[2]].Type = ElementNode
               /\ kout[2] # kin[2]
               /\ heap[w][kout[2]].Parent = nodes[w][1]

\* the places at the top of what caller w holds where a node that the second
\* pass made stands: one that the first pass did not leave there
Produced(w) ==
    LET f == FirstPass(w)
    IN  {i \in 1..Len(nodes[w]) : \A k \in 1..Len(f.nodes) : f.nodes[k] # nodes[w][i]}

\* element n of h has a block-level element below it
BlockBelow(h, n) ==
    \E m \in Subtree(h, n) :
        m # n /\ h[m].Type = ElementNode /\ h[m].DataAtom \in isBlockElement

\* C26: under WrapText no paragraph that the wrapping of inline content made
\* holds a block-level element: each buffer is rendered and parsed again, with
\* no depth limit, so that block-level content inside inline content comes to
\* stand beside the paragraph at the top, as in <em>hello <p>world</p>, which
\* gives <p><em>hello </em></p><p><em>world</em></p><p></p>; what the parser
\* returns stands where the buffer was, in order.
C26_NoBlockInParagraph ==
    \A w \in Workers :
        Repaired(w) /\ Policy(w).WrapText =>
            LET f == FirstPass(w)
            IN  /\ StandsAsFlushed(w, f.M.heap,
                                   Flushed(f.M.heap, Segments(f.M.heap, f.nodes, <<>>), FALSE))
                /\ \A i \in Produced(w) :
                      heap[w][nodes[w][i]].Type = ElementNode
                          /\ heap[w][nodes[w][i]].DataAtom = "p"
                      => ~BlockBelow(heap[w], nodes[w][i])

\* every element, attribute of an element, attribute of all elements and wrap
\* root that Config b allows, Config a allows
Grown(b, a) ==
    /\ DOMAIN b.elem \subseteq DOMAIN a.elem
    /\ \A e \in DOMAIN b.elem : DOMAIN b.elem[e] \subseteq DOMAIN a.elem[e]
    /\ DOMAIN b.elemCustom \subseteq DOMAIN a.elemCustom
    /\ \A e \in DOMAIN b.elemCustom : DOMAIN b.elemCustom[e] \subseteq DOMAIN a.elemCustom[e]
    /\ b.attr \subseteq a.attr
    /\ b.attrCustom \subseteq a.attrCustom
    /\ b.wrap \subseteq a.wrap
    /\ b.wrapCustom \subseteq a.wrapCustom

C28_LatestPatternWins ==
    built # <<>> /\ LastBuilt.op \in {"ElemAttr", "ElemAttrMatch"} =>
        LET b == LastBuilt
        IN  /\ PatternsFor(config, b.elem, b.attr) = {b.match}
            /\ b.op = "ElemAttr" => b.match = NoPattern
            /\ \A e \in BuildElems, a \in BuildAttrs :
                  <<e, a>> # <<b.elem, b.attr>> =>
                      PatternsFor(config, e, a) = PatternsFor(b.before, e, a)
            /\ \A w \in Workers :
                  Rebuilt(w) /\ Lookup(b.elem) # "" /\ Lookup(b.attr) # "" =>
                      \A kv \in AttrsOn(fragment[w], b.elem) :
                          kv[1] = b.attr =>
                              (kv \in AttrsOn(out[w], b.elem)
                                  <=> (b.match = NoPattern \/ MatchString(b.match, kv[2])))

\* C28's case: title on p had a pattern that "World" does not match, so the
\* first result lost title="World"; ElemAttrMatch gave the pair a pattern
\* that "World" matches, and the second result keeps it
C28_Witness ==
    \E w \in Workers :
        /\ Rebuilt(w)
        /\ LastBuilt.op = "ElemAttrMatch"
        /\ LastBuilt.elem = "p" /\ LastBuilt.attr = "title"
        /\ PatternsFor(LastBuilt.before, "p", "title") = {"^Hello$"}
        /\ LastBuilt.match # "^Hello$"
        /\ <<"title", <<"World">>>> \in AttrsOn(fragment[w], "p")
        /\ <<"title", <<"World">>>> \notin AttrsOn(firstOut[w], "p")
        /\ <<"title", <<"World">>>> \in AttrsOn(out[w], "p")
====
